---- MODULE Spec2Model ----
(***************************************************************************)
(* Mental Health Companion: the streaming chat interface                   *)
(* (AIChatInterface.tsx), the mood service (moodService.ts), the           *)
(* relational schema (schema.sql), the auth service and the routes         *)
(* (authService.ts, App.tsx, main.tsx), the Suggestions tab of the main   *)
(* page, RegisterPage and the reading of one chunked response body of     *)
(* /api/chat/stream, as state machines.                                    *)
(*                                                                         *)
(* Texts are sequences of one-character strings, so that toLowerCase,      *)
(* trim and includes are computed as the code computes them.  Message ids  *)
(* are the numbers Date.now() yields: the clock `now` never goes back, a   *)
(* step of the user comes at a later tick than the step before it, and a  *)
(* step of the network may share its tick with the step before it.        *)
(***************************************************************************)
EXTENDS Integers, Sequences, FiniteSets, TLC

(* ------------------------------ bounds -------------------------------- *)
\* requests callAIAPIStream is called for in one run
MaxReq == 2
\* events the gateway emits on one stream
MaxEvents == 3
\* ticks of the millisecond clock, and so steps of the user, in one run
MaxTime == 4
\* mood scores a caller passes to the mood service
MinScoreInput == 0
MaxScoreInput == 11
\* entries of generateMockData, entries created in one run, clock ticks
MockEntries == 1
MaxEntries == 1
MaxMoodTime == 1
\* rows of Users and of ConversationSessions, and generated keys, in one run
MaxUsers == 2
MaxSessions == 1
MaxRows == 5
\* rows inserted by hand into one table, and the intensities tried (tenths)
MaxTableRows == 1
MinIntensityInput == 0 - 1
MaxIntensityInput == 11
\* entries in the storage when the trend is asked for
MaxTrendEntries == 2
\* calls of the auth API in flight at once
MaxAuthRequests == 2
\* store writes that fail in one run
MaxFailures == 1
\* GET /suggestions calls in flight at once, and calls that fail in one run
MaxSuggestionRequests == 2
MaxLoadFailures == 1
\* POST /api/auth/register calls sent in one run
MaxRegisterRequests == 1
\* events and comment lines on one byte stream
MaxWireUnits == 2

(* ------------------------------ strings ------------------------------- *)
UpperCase == <<"A","B","C","D","E","F","G","H","I","J","K","L","M",
               "N","O","P","Q","R","S","T","U","V","W","X","Y","Z">>
LowerCase == <<"a","b","c","d","e","f","g","h","i","j","k","l","m",
               "n","o","p","q","r","s","t","u","v","w","x","y","z">>

\* String.prototype.toLowerCase, one character
lowerChar(c) ==
    IF \E i \in 1..Len(UpperCase) : UpperCase[i] = c
    THEN LowerCase[CHOOSE i \in 1..Len(UpperCase) : UpperCase[i] = c]
    ELSE c

toLowerCase(text) == [i \in 1..Len(text) |-> lowerChar(text[i])]

\* String.prototype.includes
includes(text, keyword) ==
    \E i \in 0..(Len(text) - Len(keyword)) :
        \A j \in 1..Len(keyword) : text[i + j] = keyword[j]

\* !text.trim(): nothing but white space
trimIsEmpty(text) == \A i \in 1..Len(text) : text[i] = " "

crisisKeywords ==
    { <<"s","u","i","c","i","d","e">>,
      <<"k","i","l","l"," ","m","y","s","e","l","f">>,
      <<"e","n","d"," ","m","y"," ","l","i","f","e">>,
      <<"w","a","n","t"," ","t","o"," ","d","i","e">>,
      <<"s","e","l","f"," ","h","a","r","m">>,
      <<"h","u","r","t"," ","m","y","s","e","l","f">>,
      <<"n","o"," ","p","o","i","n","t"," ","l","i","v","i","n","g">> }

detectCrisis(text) ==
    LET lowerText == toLowerCase(text)
    IN  \E keyword \in crisisKeywords : includes(lowerText, keyword)

\* what the user may type: "hi", "I Want to DIE", " "
TextHi == <<"h","i">>
TextWantToDie == <<"I"," ","W","a","n","t"," ","t","o"," ","D","I","E">>
TextBlank == <<" ">>
Texts == {TextHi, TextWantToDie, TextBlank}

\* fixed message bodies
Greeting == <<"GREETING">>
ApologySend == <<"APOLOGY_SEND">>
ApologyJournal == <<"APOLOGY_JOURNAL">>
AnalysisPrompt == <<"ANALYSIS_PROMPT">>

(* ------------- Emotion Classifier and Decision Router (spec 4.1, 4.2) -- *)
\* emotion labels; intensities are tenths, 0..10 standing for 0.0..1.0:
\* the ends of the range and the values next to the two thresholds
Labels == {"crisis", "sadness", "neutral"}
CrisisLabels == {"crisis"}
crisis_threshold == 8
support_threshold == 5
Intensities == {0, support_threshold - 1, support_threshold,
                crisis_threshold - 1, crisis_threshold, 10}
Actions == {"normal_reply", "support_suggestion", "crisis_flow"}

\* the classifications the classifier may return for a text: the keyword
\* fallback fixes a high-intensity crisis label on a match, otherwise the
\* LLM's answer is any label and intensity
Classifications(text) ==
    IF detectCrisis(text)
    THEN {[label |-> "crisis", intensity |-> 10]}
    ELSE [label : Labels, intensity : Intensities]

\* the router with the support test ahead of the crisis test
DecisionRouterSupportFirst(label, intensity) ==
    IF intensity >= support_threshold
    THEN "support_suggestion"
    ELSE IF label \in CrisisLabels \/ intensity >= crisis_threshold
         THEN "crisis_flow"
         ELSE "normal_reply"

DecisionRouter(label, intensity) ==
    IF label \in CrisisLabels \/ intensity >= crisis_threshold
    THEN "crisis_flow"
    ELSE IF intensity >= support_threshold
         THEN "support_suggestion"
         ELSE "normal_reply"

(* ------------------------ the SSE wire format -------------------------- *)
\* One event travels as  data: <json>\n\n : the atoms P (the prefix
\* "data: "), J (the JSON body), N, N.  A network chunk is any non-empty
\* run of atoms, so a chunk may end inside an event or inside "\n\n".
NoEvent == [type |-> "none", decision |-> "", content |-> ""]
MetadataEvent(action) == [type |-> "metadata", decision |-> action, content |-> ""]
ContentEvent(tok) == [type |-> "content", decision |-> "", content |-> tok]
DoneEvent == [type |-> "done", decision |-> "", content |-> ""]
ErrorEvent == [type |-> "error", decision |-> "", content |-> "upstream"]

\* the bytes on the wire.  'data: ' is AtomD ('dat') and AtomP ('a: '); a
\* JSON body is its first half AtomJ and its second half AtomK, and the
\* body of a content event has a two-byte character between them, its lead
\* byte AtomU1 and its continuation byte AtomU2; AtomN is '\n'; AtomC is
\* the text of a comment line (': ping')
AtomD == [k |-> "D", ev |-> NoEvent]
AtomP == [k |-> "P", ev |-> NoEvent]
AtomN == [k |-> "N", ev |-> NoEvent]
AtomC == [k |-> "C", ev |-> NoEvent]
AtomJ(ev) == [k |-> "J", ev |-> ev]
AtomK(ev) == [k |-> "K", ev |-> ev]
AtomU1 == [k |-> "U1", ev |-> NoEvent]
AtomU2 == [k |-> "U2", ev |-> NoEvent]
\* decoded text: the two-byte character, and U+FFFD
AtomU == [k |-> "U", ev |-> NoEvent]
AtomR == [k |-> "R", ev |-> NoEvent]
Body(ev) ==
    IF ev.type = "content"
    THEN <<AtomJ(ev), AtomU1, AtomU2, AtomK(ev)>>
    ELSE <<AtomJ(ev), AtomK(ev)>>
Encode(ev) == <<AtomD, AtomP>> \o Body(ev) \o <<AtomN, AtomN>>

\* TextDecoder.decode on the bytes held from the chunks before followed by
\* the bytes of this chunk: a lead byte and its continuation byte give the
\* character, a byte of an incomplete or a broken sequence gives U+FFFD,
\* and with {stream: true} a lead byte at the end is held for the next call
AtomSkip == [k |-> "skip", ev |-> NoEvent]
decodeBytes(bytes, stream) ==
    LET n == Len(bytes)
        out(i) ==
            IF bytes[i].k = "U1"
            THEN IF i = n THEN (IF stream THEN AtomSkip ELSE AtomR)
                 ELSE IF bytes[i + 1].k = "U2" THEN AtomU ELSE AtomR
            ELSE IF bytes[i].k = "U2"
            THEN IF i > 1 /\ bytes[i - 1].k = "U1" THEN AtomSkip ELSE AtomR
            ELSE bytes[i]
    IN  [text |-> SelectSeq([i \in 1..n |-> out(i)], LAMBDA a : a # AtomSkip),
         held |-> IF stream /\ n > 0 /\ bytes[n].k = "U1" THEN <<bytes[n]>> ELSE <<>>]

\* decoder.decode(value) without {stream: true}: each chunk on its own
decodeEachChunk(held, value) == decodeBytes(held \o value, FALSE)

\* decoder.decode(value, { stream: true })
decode(held, value) == decodeBytes(held \o value, TRUE)

\* F applied to the value of e, which is computed once
With(e, F(_)) == CHOOSE y \in {F(x) : x \in {e}} : TRUE

\* buffer.split('\n\n'): the segments between non-overlapping separators,
\* scanned left to right
RECURSIVE Split(_, _, _, _)
Split(s, i, cur, acc) ==
    IF i > Len(s) THEN Append(acc, cur)
    ELSE IF s[i].k = "N" /\ i + 1 <= Len(s) /\ s[i + 1].k = "N"
         THEN Split(s, i + 2, <<>>, Append(acc, cur))
         ELSE Split(s, i + 1, Append(cur, s[i]), acc)

splitLines(buffer) == With(buffer, LAMBDA s : Split(s, 1, <<>>, <<>>))

\* line.startsWith('data: ')
startsWithData(line) == Len(line) >= 2 /\ line[1].k = "D" /\ line[2].k = "P"

\* line.slice(6)
slice6(line) == SubSeq(line, 3, Len(line))

\* JSON.parse(line.slice(6)) returns a value on exactly one whole JSON
\* body and throws on anything else; characters inside the string of a
\* content event, U+FFFD too, are part of its content
parseOk(line) ==
    LET body == slice6(line)
    IN  /\ Len(body) >= 2
        /\ body[1].k = "J"
        /\ body[Len(body)].k = "K"
        /\ body[1].ev = body[Len(body)].ev
        /\ IF body[1].ev.type = "content"
           THEN \A i \in 2..(Len(body) - 1) : body[i].k \in {"U", "R"}
           ELSE Len(body) = 2
parsed(line) ==
    LET body == slice6(line)
    IN  IF body[1].ev.type = "content" /\ SubSeq(body, 2, Len(body) - 1) # <<AtomU>>
        THEN [body[1].ev EXCEPT !.content = "U+FFFD"]
        ELSE body[1].ev

(* ======================= the streaming chat ============================ *)
VARIABLES
    messages,            \* useState<Message[]>
    inputValue,          \* useState('')
    isLoading,           \* useState(false)
    showJournalAnalyzer, \* useState(false)
    abortControllerRef,  \* useRef<AbortController | null>: 0 is null, r is
                         \* the controller made by the r-th callAIAPIStream
    showCrisisAlert,     \* the page's state, set by onCrisisDetected
    now,                 \* Date.now()
    token,               \* authService.getToken() is not null
    req,                 \* the calls of callAIAPIStream, by number
    stream               \* per call: the gateway's side and the bytes in flight

chatVars == <<messages, inputValue, isLoading, showJournalAnalyzer,
              abortControllerRef, showCrisisAlert, now, token, req, stream>>

\* the mood service (moodService.ts)
VARIABLES
    moodStorage,         \* localStorage['mood_entries']: the JSON text
    currentUser,         \* the user logged in in this browser
    moodClock,           \* Date.now() of the mood service
    lastCall             \* the last call of the service and what it returned

moodVars == <<moodStorage, currentUser, moodClock, lastCall>>

\* the relational store (schema.sql)
VARIABLES
    Users,               \* user_id of the rows of Users
    ConversationSessions,\* rows of ConversationSessions
    AgentDecisions,      \* rows of AgentDecisions
    CrisisEvents,        \* rows of CrisisEvents
    nextRowId,           \* the next generated primary key
    lastDecision,        \* what the Decision Router returned last
    reportedFailures     \* failures handed to the error reporter

dbVars == <<Users, ConversationSessions, AgentDecisions, CrisisEvents,
            nextRowId, lastDecision, reportedFailures>>

\* the tables of schema.sql that the router does not write
VARIABLES
    EmergencyContacts,   \* rows of EmergencyContacts
    MoodEntries,         \* rows of MoodEntries
    ConversationMessages,\* rows of ConversationMessages
    TherapeuticGoals,    \* rows of TherapeuticGoals
    SuggestionLog,       \* rows of SuggestionLog
    serial               \* per table, the primary keys generated so far

tableVars == <<EmergencyContacts, MoodEntries, ConversationMessages,
               TherapeuticGoals, SuggestionLog, serial>>

\* the browser's storage as authService.ts uses it
VARIABLES
    localStorage,        \* key -> << >> (no item) or <<value>>
    sessionStorage,      \* the same, for the tab's session
    entryPoint,          \* which main.tsx the bundle starts from
    location,            \* the path of the router
    rendered,            \* the page on the screen
    profileRequests,     \* GET/PUT /api/auth/me calls in flight
    loginRequests,       \* POST /api/auth/login calls in flight
    loggedOut,           \* logout() ran and no login succeeded since
    remembered,          \* a login with Remember Me succeeded and neither
                         \* logout nor a 401 response came since
    unauthorizedBy       \* who handled the last 401 response, if no login
                         \* succeeded since: "apiClient", "stream" or "none"

authVars == <<localStorage, sessionStorage, entryPoint, location, rendered,
              profileRequests, loginRequests, loggedOut, remembered,
              unauthorizedBy>>

\* the browser's locale
VARIABLES
    timezoneOffset       \* local time minus UTC, in quarters of a day

localeVars == <<timezoneOffset>>

\* the Suggestions tab of the main page
VARIABLES
    activeTab,            \* the tab on the screen
    suggestionsTimeRange, \* the analysis time range selected
    suggestionsStartDate, \* the custom range's start, "" if none
    suggestionsEndDate,   \* the custom range's end, "" if none
    suggestions,          \* the cards on the screen
    suggestionsLoading,   \* the loading flag
    suggestionRequests,   \* GET /suggestions calls in flight, in the order
                          \* they were issued: the params of each
    loadFailures          \* 'Failed to load suggestions' notifications

suggestionVars == <<activeTab, suggestionsTimeRange, suggestionsStartDate,
                    suggestionsEndDate, suggestions, suggestionsLoading,
                    suggestionRequests, loadFailures>>

\* RegisterPage
VARIABLES
    formData,             \* username, email, password, confirmPassword
    errors,               \* per field and `general`: << >> or <<message>>
    registerIsLoading,    \* isLoading of RegisterPage
    passwordStrength,     \* << >> (null) or <<validatePassword(password)>>
    registerSent          \* the formData authService.register was called
                          \* with, in order

registerVars == <<formData, errors, registerIsLoading, passwordStrength,
                  registerSent>>

\* one response body of /api/chat/stream and the reader of callAIAPIStream
VARIABLES
    wire,                 \* the bytes of the body
    offset,               \* how many of them reader.read() has yielded
    reader,               \* the read loop's state after the chunks so far
    spanned               \* a chunk has ended inside a line or a character

chunkVars == <<wire, offset, reader, spanned>>

\* the parts of the application outside the chat, the mood service and
\* the relational store
extVars == <<authVars, localeVars, suggestionVars, registerVars, chunkVars>>

\* the chat steps leave the stores alone
storeVars == <<moodVars, dbVars, tableVars, extVars>>

Requests == 1..MaxReq
Pending == {"fetching", "reading"}
Terminal == {"completed", "cancelled", "errored"}

Message(id, role, content, isStreaming) ==
    [id |-> id, role |-> role, content |-> content, isStreaming |-> isStreaming]

NoRequest ==
    [pc |-> "unused", origin |-> "none", text |-> <<>>,
     streamingMessageId |-> 0, idx |-> 0, userIdx |-> 0, buffer |-> <<>>,
     crisisCalls |-> 0, processed |-> <<>>, errorEvents |-> 0, doneEvents |-> 0,
     afterCrisis |-> 0, decoder |-> <<>>]

NoStream == [state |-> "none", emitted |-> 0, deltas |-> 0, metaSent |-> FALSE]

InitChat ==
    /\ messages = <<Message(1, "assistant", Greeting, FALSE)>>
    /\ inputValue = <<>>
    /\ isLoading = FALSE
    /\ showJournalAnalyzer = FALSE
    /\ abortControllerRef = 0
    /\ showCrisisAlert = FALSE
    /\ now = 2
    /\ token \in BOOLEAN
    /\ req = [r \in Requests |-> NoRequest]
    /\ stream = [r \in Requests |-> NoStream]

\* the number the next call of callAIAPIStream gets
FreeRequest == CHOOSE r \in Requests : req[r].pc = "unused" /\ \A q \in 1..(r - 1) : req[q].pc # "unused"
HasFreeRequest == \E r \in Requests : req[r].pc = "unused"

\* a step of the user (a click, a key) comes at a later tick than the step
\* before it: the time the handler reads
UserTime == now + 1
CanAct == now < 2 + MaxTime

\* Date.now() advances
Tick ==
    /\ now < 2 + MaxTime
    /\ \E r \in Requests : req[r].pc \notin Terminal
    /\ now' = now + 1
    /\ UNCHANGED <<messages, inputValue, isLoading, showJournalAnalyzer,
                   abortControllerRef, showCrisisAlert, token, req, stream>>
    /\ UNCHANGED storeVars

\* the textarea's onChange; the textarea is disabled while isLoading
handleInputChange(t) ==
    /\ ~isLoading
    /\ HasFreeRequest
    /\ inputValue # t
    /\ CanAct
    /\ now' = UserTime
    /\ inputValue' = t
    /\ UNCHANGED <<messages, isLoading, showJournalAnalyzer, abortControllerRef,
                   showCrisisAlert, token, req, stream>>
    /\ UNCHANGED storeVars

\* what the caller of callAIAPIStream does when the promise rejects at time t:
\* handleSendMessage shows no error for an AbortError, the .catch of
\* handleJournalAnalysis does not look at the error
afterReject(msgs, origin, isAbort, t) ==
    IF origin = "send"
    THEN IF isAbort THEN msgs
         ELSE Append(msgs, Message(t + 1, "assistant", ApologySend, FALSE))
    ELSE Append(msgs, Message(t + 1, "assistant", ApologyJournal, FALSE))

\* callAIAPIStream up to its first await, after the caller has put the user
\* message: the new controller, the token check, the fetch
startRequest(r, origin, text, updatedMessages, t) ==
    /\ abortControllerRef' = r
    /\ IF token
       THEN /\ messages' = updatedMessages
            /\ isLoading' = TRUE
            /\ req' = [req EXCEPT ![r] = [NoRequest EXCEPT !.pc = "fetching",
                          !.origin = origin, !.text = text,
                          !.userIdx = Len(updatedMessages)]]
       ELSE /\ messages' = afterReject(updatedMessages, origin, FALSE, t)
            /\ isLoading' = FALSE
            /\ req' = [req EXCEPT ![r] = [NoRequest EXCEPT !.pc = "errored",
                          !.origin = origin, !.text = text,
                          !.userIdx = Len(updatedMessages)]]

handleSendMessage ==
    /\ ~trimIsEmpty(inputValue)
    /\ ~isLoading
    /\ HasFreeRequest
    /\ CanAct
    /\ now' = UserTime
    /\ LET userMessage == Message(UserTime, "user", inputValue, FALSE)
           updatedMessages == Append(messages, userMessage)
       IN  startRequest(FreeRequest, "send", inputValue, updatedMessages, UserTime)
    /\ inputValue' = <<>>
    /\ UNCHANGED <<showJournalAnalyzer, showCrisisAlert, token, stream>>
    /\ UNCHANGED storeVars

\* the Analyze Journal button is disabled while isLoading
openJournalAnalyzer ==
    /\ ~isLoading
    /\ HasFreeRequest
    /\ ~showJournalAnalyzer
    /\ CanAct
    /\ now' = UserTime
    /\ showJournalAnalyzer' = TRUE
    /\ UNCHANGED <<messages, inputValue, isLoading, abortControllerRef,
                   showCrisisAlert, token, req, stream>>
    /\ UNCHANGED storeVars

closeJournalAnalyzer ==
    /\ showJournalAnalyzer
    /\ CanAct
    /\ now' = UserTime
    /\ showJournalAnalyzer' = FALSE
    /\ UNCHANGED <<messages, inputValue, isLoading, abortControllerRef,
                   showCrisisAlert, token, req, stream>>
    /\ UNCHANGED storeVars

\* the modal's Analyze button: onAnalyze(entries, range), then onClose()
handleJournalAnalysis ==
    /\ showJournalAnalyzer
    /\ HasFreeRequest
    /\ CanAct
    /\ now' = UserTime
    /\ LET userMessage == Message(UserTime, "user", AnalysisPrompt, FALSE)
           updatedMessages == Append(messages, userMessage)
       IN  startRequest(FreeRequest, "journal", AnalysisPrompt, updatedMessages, UserTime)
    /\ showJournalAnalyzer' = FALSE
    /\ UNCHANGED <<inputValue, showCrisisAlert, token, stream>>
    /\ UNCHANGED storeVars

\* the ways the fetch or the response can fail before the read loop:
\* fetch rejects, !response.ok (401 or another status), response.body null
FetchFailures == {"network", "http401", "httpError", "nullBody"}

\* the fetch fails: callAIAPIStream throws before its try block, so its
\* finally does not run and abortControllerRef keeps the controller
fetchFails(r, why) ==
    /\ req[r].pc = "fetching"
    /\ why \in FetchFailures
    /\ messages' = afterReject(messages, req[r].origin, FALSE, now)
    /\ isLoading' = FALSE
    /\ req' = [req EXCEPT ![r].pc = "errored"]
    /\ UNCHANGED <<inputValue, showJournalAnalyzer, abortControllerRef,
                   showCrisisAlert, now, token, stream>>
    /\ UNCHANGED storeVars

\* the response arrives: the reader, and the placeholder message
fetchResponds(r) ==
    /\ req[r].pc = "fetching"
    /\ LET streamingMessageId == now + 1
           streamingMessage == Message(streamingMessageId, "assistant", <<>>, TRUE)
       IN  /\ messages' = Append(messages, streamingMessage)
           /\ req' = [req EXCEPT ![r].pc = "reading",
                                 ![r].streamingMessageId = streamingMessageId,
                                 ![r].idx = Len(messages) + 1]
    /\ stream' = [stream EXCEPT ![r].state = "open"]
    /\ UNCHANGED <<inputValue, isLoading, showJournalAnalyzer, abortControllerRef,
                   showCrisisAlert, now, token>>
    /\ UNCHANGED storeVars

(* ---- the Streaming Chat Gateway (spec 4.3): what the server may send ---- *)
\* the text deltas the LLM generates, in generation order
Deltas == <<"a", "b", "c", "d">>

\* metadata at most once, with the router's decision for the user's text;
\* the next content delta; done or error last, and then the stream is closed
GatewayEvents(r) ==
    {DoneEvent, ErrorEvent}
    \cup (IF stream[r].emitted + 1 < MaxEvents
          THEN {ContentEvent(Deltas[stream[r].deltas + 1])}
               \cup (IF stream[r].metaSent THEN {}
                     ELSE {MetadataEvent(DecisionRouter(c.label, c.intensity)) :
                              c \in Classifications(req[r].text)})
          ELSE {})

gatewayAfter(g, ev) ==
    [g EXCEPT !.emitted = @ + 1,
              !.deltas = IF ev.type = "content" THEN @ + 1 ELSE @,
              !.metaSent = @ \/ ev.type = "metadata",
              !.state = IF ev.type \in {"done", "error"} THEN "closed" ELSE @]

(* ------------------- the read loop of callAIAPIStream ------------------ *)
\* what the loop body changes: the messages, the alert, and the request's
\* own variables with the history kept for the properties
LoopState(msgs, alert, r) == [msgs |-> msgs, alert |-> alert, r |-> r]

onContent(msgs, streamingMessageId, content) ==
    [i \in 1..Len(msgs) |->
        IF msgs[i].id = streamingMessageId
        THEN [msgs[i] EXCEPT !.content = @ \o <<content>>]
        ELSE msgs[i]]

onDone(msgs, streamingMessageId) ==
    [i \in 1..Len(msgs) |->
        IF msgs[i].id = streamingMessageId
        THEN [msgs[i] EXCEPT !.isStreaming = FALSE]
        ELSE msgs[i]]

\* onEvent with a crisis_flow branch that leaves callAIAPIStream after
\* onCrisisDetected: the rest of the stream is not read
onEventCrisisEndsStream(st, data) ==
    IF data.type = "metadata" /\ data.decision # ""
    THEN IF data.decision = "crisis_flow"
         THEN [st EXCEPT !.alert = TRUE, !.r.crisisCalls = @ + 1,
                         !.r.pc = "completed"]
         ELSE st
    ELSE IF data.type = "content"
    THEN [st EXCEPT !.msgs = onContent(@, st.r.streamingMessageId, data.content),
                    !.r.processed = Append(@, data.content)]
    ELSE IF data.type = "done"
    THEN [st EXCEPT !.msgs = onDone(@, st.r.streamingMessageId),
                    !.r.doneEvents = @ + 1]
    ELSE st

\* the if / else-if chain on data.type inside the inner try; the throw of
\* the error branch is caught by the catch of that same try, which logs it.
\* afterCrisis counts the content events handled after onCrisisDetected
onEvent(st, data) ==
    IF data.type = "metadata" /\ data.decision # ""
    THEN IF data.decision = "crisis_flow"
         THEN [st EXCEPT !.alert = TRUE, !.r.crisisCalls = @ + 1]
         ELSE st
    ELSE IF data.type = "content"
    THEN [st EXCEPT !.msgs = onContent(@, st.r.streamingMessageId, data.content),
                    !.r.processed = Append(@, data.content),
                    !.r.afterCrisis = IF st.r.crisisCalls > 0 THEN @ + 1 ELSE @]
    ELSE IF data.type = "done"
    THEN [st EXCEPT !.msgs = onDone(@, st.r.streamingMessageId),
                    !.r.doneEvents = @ + 1]
    ELSE IF data.type = "error"
    THEN [st EXCEPT !.r.errorEvents = @ + 1]
    ELSE st

onLine(st, line) ==
    IF startsWithData(line) /\ parseOk(line) THEN onEvent(st, parsed(line)) ELSE st

RECURSIVE onLines(_, _, _)
onLines(st, lines, i) ==
    IF i > Len(lines) THEN st ELSE onLines(onLine(st, lines[i]), lines, i + 1)

\* loopBody with `buffer = lines.pop() || ''` left out: the buffer keeps
\* the segments already handled
loopBodyKeepsBuffer(st, value) ==
    LET decoded == decode(st.r.decoder, value)
        handle(lines) ==
            [onLines(st, SubSeq(lines, 1, Len(lines) - 1), 1)
                EXCEPT !.r.buffer = st.r.buffer \o decoded.text,
                       !.r.decoder = decoded.held]
    IN  With(splitLines(st.r.buffer \o decoded.text), handle)

\* one turn of the while loop on the chunk `value`: decode, split, keep the
\* last segment as the buffer, handle the other segments in order
loopBody(st, value) ==
    LET decoded == decode(st.r.decoder, value)
        handle(lines) ==
            [onLines(st, SubSeq(lines, 1, Len(lines) - 1), 1)
                EXCEPT !.r.buffer = lines[Len(lines)],
                       !.r.decoder = decoded.held]
    IN  With(splitLines(st.r.buffer \o decoded.text), handle)

\* reader.read() yields a chunk: here the gateway's next event, whole
readChunk(r, ev) ==
    /\ req[r].pc = "reading"
    /\ stream[r].state = "open"
    /\ ev \in GatewayEvents(r)
    /\ \E st \in {loopBody(LoopState(messages, showCrisisAlert, req[r]), Encode(ev))} :
           /\ messages' = st.msgs
           /\ showCrisisAlert' = st.alert
           /\ req' = [req EXCEPT ![r] = st.r]
    /\ stream' = [stream EXCEPT ![r] = gatewayAfter(@, ev)]
    /\ UNCHANGED <<inputValue, isLoading, showJournalAnalyzer, abortControllerRef,
                   now, token>>
    /\ UNCHANGED storeVars

\* readDone without the caller's finally { setIsLoading(false) }
readDoneKeepsLoading(r) ==
    /\ req[r].pc = "reading"
    /\ stream[r].state = "closed"
    /\ abortControllerRef' = 0
    /\ req' = [req EXCEPT ![r].pc = "completed"]
    /\ UNCHANGED <<messages, inputValue, isLoading, showJournalAnalyzer,
                   showCrisisAlert, now, token, stream>>
    /\ UNCHANGED storeVars

\* reader.read() yields done: break, the finally, and the caller's finally
readDone(r) ==
    /\ req[r].pc = "reading"
    /\ stream[r].state = "closed"
    /\ abortControllerRef' = 0
    /\ isLoading' = FALSE
    /\ req' = [req EXCEPT ![r].pc = "completed"]
    /\ UNCHANGED <<messages, inputValue, showJournalAnalyzer, showCrisisAlert,
                   now, token, stream>>
    /\ UNCHANGED storeVars

\* reader.read() rejects because the connection broke
readFails(r) ==
    /\ req[r].pc = "reading"
    /\ stream[r].state = "open"
    /\ abortControllerRef' = 0
    /\ messages' = afterReject(messages, req[r].origin, FALSE, now)
    /\ isLoading' = FALSE
    /\ req' = [req EXCEPT ![r].pc = "errored"]
    /\ stream' = [stream EXCEPT ![r].state = "closed"]
    /\ UNCHANGED <<inputValue, showJournalAnalyzer, showCrisisAlert, now, token>>
    /\ UNCHANGED storeVars

\* the Cancel button (shown while isLoading).  abort() rejects the pending
\* fetch or read with an AbortError; the rejection's handlers (the finally
\* of callAIAPIStream, the caller's catch and finally) are promise jobs
\* that run before the next event is handled
handleCancelRequest ==
    /\ isLoading
    /\ abortControllerRef # 0
    /\ CanAct
    /\ now' = UserTime
    /\ LET r == abortControllerRef
       IN  IF req[r].pc \in Pending
           THEN /\ messages' = afterReject(messages, req[r].origin, TRUE, UserTime)
                /\ req' = [req EXCEPT ![r].pc = "cancelled"]
                /\ stream' = [stream EXCEPT ![r].state = "closed"]
           ELSE UNCHANGED <<messages, req, stream>>
    /\ abortControllerRef' = 0
    /\ isLoading' = FALSE
    /\ UNCHANGED <<inputValue, showJournalAnalyzer, showCrisisAlert, token>>
    /\ UNCHANGED storeVars

NextChat ==
    \/ Tick
    \/ \E t \in Texts : handleInputChange(t)
    \/ handleSendMessage
    \/ openJournalAnalyzer
    \/ closeJournalAnalyzer
    \/ handleJournalAnalysis
    \/ \E r \in Requests, why \in FetchFailures : fetchFails(r, why)
    \/ \E r \in Requests : fetchResponds(r)
    \/ \E r \in Requests : \E ev \in GatewayEvents(r) : readChunk(r, ev)
    \/ \E r \in Requests : readDone(r)
    \/ \E r \in Requests : readFails(r)
    \/ handleCancelRequest

(* ========================= the mood service ============================ *)
\* the users who log in in this browser; 'user-1' is the id the mock writes
MoodUsers == {"user-1", "user-2"}
NoUser == "none"
\* an entry; owner is not a field of MoodEntry: it records who was logged
\* in when the entry was created
MoodEntry(id, userId, moodScore, note, timestamp, owner) ==
    [id |-> id, userId |-> userId, moodScore |-> moodScore, note |-> note,
     timestamp |-> timestamp, owner |-> owner]

\* the scores and notes a caller may pass: the type is number
ScoreInputs == {MinScoreInput, 10, MaxScoreInput}
Notes == {"", "note"}
EntryData == [moodScore : ScoreInputs, note : Notes]

\* MoodEntries.mood_score CHECK (mood_score >= 1 AND mood_score <= 10)
validMoodScore(score) == score >= 1 /\ score <= 10

\* generateMockData: entries mock-i of 'user-1' dated before now, with
\* Math.max(1, Math.min(10, moodScore))
MockScores == {1, 10}
generateMockData(scores) ==
    [i \in 1..MockEntries |->
        MoodEntry(0 - i, "user-1", scores[i], "", 0 - i, "user-1")]

NoCall == [op |-> "none", by |-> NoUser, ok |-> TRUE, returned |-> <<>>]

\* JSON.stringify of the entries: a Date is written as its ISO string,
\* <<"iso", t>> for the instant t
stringify(entries) ==
    [i \in 1..Len(entries) |-> [entries[i] EXCEPT !.timestamp = <<"iso", @>>]]

\* the reviver of LocalStorageManager.get: a string under the key
\* timestamp becomes a Date again
reviver(key, value) ==
    IF key = "timestamp" /\ value[1] = "iso" THEN value[2] ELSE value

\* JSON.parse(item, reviver)
parse(item) ==
    [i \in 1..Len(item) |->
        [item[i] EXCEPT !.timestamp = reviver("timestamp", @)]]

\* LocalStorageManager.get, with the caller's  || []
get == parse(moodStorage)

\* whether localStorage.setItem has room for the text or throws
\* QuotaExceededError, which LocalStorageManager.set catches and logs
SetItemOutcomes == {"stored", "QuotaExceededError"}

\* LocalStorageManager.set: the item after the call
set(value, outcome) ==
    IF outcome = "stored" THEN stringify(value) ELSE moodStorage

\* the module runs moodStorage.set(generateMockData()) when the key is
\* absent; main.tsx then clears localStorage in debug mode
InitMood ==
    /\ \/ moodStorage = <<>>
       \/ \E scores \in [1..MockEntries -> MockScores] :
             moodStorage = stringify(generateMockData(scores))
    /\ currentUser = NoUser
    /\ moodClock = 1
    /\ lastCall = NoCall

\* authService.login stores the token and the user
login(u) ==
    /\ currentUser = NoUser
    /\ currentUser' = u
    /\ UNCHANGED <<moodStorage, moodClock, lastCall>>
    /\ UNCHANGED <<chatVars, dbVars, tableVars, extVars>>

\* authService.logout removes auth_token and auth_user, nothing else
logout ==
    /\ currentUser # NoUser
    /\ currentUser' = NoUser
    /\ UNCHANGED <<moodStorage, moodClock, lastCall>>
    /\ UNCHANGED <<chatVars, dbVars, tableVars, extVars>>

\* Date.now() of the mood service advances
moodTick ==
    /\ moodClock < 1 + MaxMoodTime
    /\ moodClock' = moodClock + 1
    /\ UNCHANGED <<moodStorage, currentUser, lastCall>>
    /\ UNCHANGED <<chatVars, dbVars, tableVars, extVars>>

createEntry(data, outcome) ==
    /\ currentUser # NoUser
    /\ Len(moodStorage) < MockEntries + MaxEntries
    /\ LET entries == get
           newEntry == MoodEntry(moodClock, "user-1", data.moodScore, data.note,
                                 moodClock, currentUser)
       IN  /\ moodStorage' = set(Append(entries, newEntry), outcome)
           /\ lastCall' = [op |-> "createEntry", by |-> currentUser, ok |-> TRUE,
                           returned |-> <<newEntry>>]
    /\ UNCHANGED <<currentUser, moodClock>>
    /\ UNCHANGED <<chatVars, dbVars, tableVars, extVars>>

\* entries.sort((a, b) => b.timestamp - a.timestamp): stable, newest first
RECURSIVE insertSorted(_, _)
insertSorted(sorted, e) ==
    IF sorted = <<>> THEN <<e>>
    ELSE IF Head(sorted).timestamp >= e.timestamp
         THEN <<Head(sorted)>> \o insertSorted(Tail(sorted), e)
         ELSE <<e>> \o sorted

RECURSIVE sortByTimestampDesc(_)
sortByTimestampDesc(entries) ==
    IF entries = <<>> THEN <<>>
    ELSE insertSorted(sortByTimestampDesc(SubSeq(entries, 1, Len(entries) - 1)),
                      entries[Len(entries)])

\* limit 0 stands for no limit (limit ? sorted.slice(0, limit) : sorted)
Limits == {0, 1}
entriesRead(limit) ==
    LET entries == get
        sorted == sortByTimestampDesc(entries)
    IN  IF limit # 0
        THEN SubSeq(sorted, 1, IF limit < Len(sorted) THEN limit ELSE Len(sorted))
        ELSE sorted

getEntries(limit) ==
    /\ currentUser # NoUser
    /\ lastCall' = [op |-> "getEntries", by |-> currentUser, ok |-> TRUE,
                    returned |-> entriesRead(limit)]
    /\ UNCHANGED <<moodStorage, currentUser, moodClock>>
    /\ UNCHANGED <<chatVars, dbVars, tableVars, extVars>>

\* the ids a caller may name: those it has seen, and one that is not there
EntryIds == {moodStorage[i].id : i \in 1..Len(moodStorage)} \cup {0}

updateEntry(id, data, outcome) ==
    /\ currentUser # NoUser
    /\ LET entries == get
           found == {i \in 1..Len(entries) : entries[i].id = id}
       IN  IF found = {}
           THEN /\ lastCall' = [op |-> "updateEntry", by |-> currentUser, ok |-> FALSE,
                                returned |-> <<>>]
                /\ UNCHANGED moodStorage
           ELSE LET index == CHOOSE i \in found : \A j \in found : i <= j
                    updatedEntry == [entries[index] EXCEPT !.moodScore = data.moodScore,
                                                           !.note = data.note]
                IN  /\ moodStorage' = set([entries EXCEPT ![index] = updatedEntry],
                                           outcome)
                    /\ lastCall' = [op |-> "updateEntry", by |-> currentUser, ok |-> TRUE,
                                    returned |-> <<updatedEntry>>]
    /\ UNCHANGED <<currentUser, moodClock>>
    /\ UNCHANGED <<chatVars, dbVars, tableVars, extVars>>

RECURSIVE filterOut(_, _)
filterOut(entries, id) ==
    IF entries = <<>> THEN <<>>
    ELSE IF Head(entries).id # id
         THEN <<Head(entries)>> \o filterOut(Tail(entries), id)
         ELSE filterOut(Tail(entries), id)

\* the text gets no longer, so setItem has room for it
deleteEntry(id) ==
    /\ currentUser # NoUser
    /\ moodStorage' = set(filterOut(get, id), "stored")
    /\ lastCall' = [op |-> "deleteEntry", by |-> currentUser, ok |-> TRUE,
                    returned |-> <<>>]
    /\ UNCHANGED <<currentUser, moodClock>>
    /\ UNCHANGED <<chatVars, dbVars, tableVars, extVars>>

(* ----------------------- getTrendData (164-192) ----------------------- *)
\* instants are counted in quarters of a day since the epoch, in UTC
DayLen == 4
\* UTC-6, UTC and UTC+6
TzOffsets == {0 - 1, 0, 1}

\* the calendar day of toISOString().split('T')[0]: the UTC date
utcDay(t) == t \div DayLen
\* the calendar day of getDate() and of toLocaleDateString: the local date
localDay(t) == (t + timezoneOffset) \div DayLen
\* setHours(0, 0, 0, 0) on a local calendar day: the instant of its midnight
localMidnight(day) == day * DayLen - timezoneOffset

Ranges == {"week", "month"}
rangeDays(range) == IF range = "week" THEN 7 ELSE 30

RECURSIVE sum(_)
sum(scores) == IF scores = <<>> THEN 0 ELSE Head(scores) + sum(Tail(scores))

\* Math.round((total / n) * 10) / 10, as a number of tenths
roundedMean(scores) == (20 * sum(scores) + Len(scores)) \div (2 * Len(scores))

RECURSIVE scoresOf(_, _)
scoresOf(entries, dateKey) ==
    IF entries = <<>> THEN <<>>
    ELSE IF utcDay(Head(entries).timestamp) = dateKey
         THEN <<Head(entries).moodScore>> \o scoresOf(Tail(entries), dateKey)
         ELSE scoresOf(Tail(entries), dateKey)

\* the series getTrendData returns at the instant `at`: date is the local
\* calendar day the label shows, moodScore the mean in tenths
trendData(range, at) ==
    LET entries == entriesRead(0)
        days == rangeDays(range)
        startDate == localMidnight(localDay(at) - days + 1)
        filteredEntries == SelectSeq(entries, LAMBDA entry : entry.timestamp >= startDate)
        dateKey(i) == utcDay(localMidnight(localDay(startDate) + i))
    IN  [k \in 1..days |->
            LET scores == scoresOf(filteredEntries, dateKey(k - 1))
            IN  [date |-> localDay(dateKey(k - 1) * DayLen),
                 moodScore |-> IF Len(scores) > 0 THEN roundedMean(scores) ELSE 0]]

getTrendData(range) ==
    /\ currentUser # NoUser
    /\ lastCall' = [op |-> "getTrendData", by |-> currentUser, ok |-> TRUE,
                    returned |-> trendData(range, moodClock), range |-> range,
                    at |-> moodClock]
    /\ UNCHANGED <<moodStorage, currentUser, moodClock>>
    /\ UNCHANGED <<chatVars, dbVars, tableVars, extVars>>

\* the entries 'user-1' may have stored before: in order of creation, each
\* with the id and the timestamp of its instant
TrendTimes == {0 - 5, 0 - 1, 0, 1}
TrendScores == {4, 7}
TrendEntry(t, score) == MoodEntry(t, "user-1", score, "", t, "user-1")
TrendStorages ==
    {<<>>}
    \cup {<<TrendEntry(t, v)>> : t \in TrendTimes, v \in TrendScores}
    \cup {x \in {<<TrendEntry(t1, v1), TrendEntry(t2, v2)>> :
                     t1 \in TrendTimes, t2 \in TrendTimes,
                     v1 \in TrendScores, v2 \in TrendScores} :
             x[1].timestamp <= x[2].timestamp}

InitTrend ==
    /\ \E entries \in {x \in TrendStorages : Len(x) <= MaxTrendEntries} :
          moodStorage = stringify(entries)
    /\ currentUser = "user-1"
    /\ moodClock = 1
    /\ lastCall = NoCall
    /\ timezoneOffset \in TzOffsets

NextTrend ==
    \/ moodTick
    \/ \E limit \in Limits : getEntries(limit)
    \/ \E range \in Ranges : getTrendData(range)

NextMood ==
    \/ \E u \in MoodUsers : login(u)
    \/ logout
    \/ moodTick
    \/ \E data \in EntryData, outcome \in SetItemOutcomes : createEntry(data, outcome)
    \/ \E limit \in Limits : getEntries(limit)
    \/ \E id \in EntryIds, data \in EntryData, outcome \in SetItemOutcomes :
          updateEntry(id, data, outcome)
    \/ \E id \in EntryIds : deleteEntry(id)

(* ================= the relational store and the router ================= *)
\* NULL of a nullable foreign key
NULL == 0

AgentDecision(decision_id, user_id, session_id, emotion_label, emotion_intensity, next_action) ==
    [decision_id |-> decision_id, user_id |-> user_id, session_id |-> session_id,
     emotion_label |-> emotion_label, emotion_intensity |-> emotion_intensity,
     next_action |-> next_action]

CrisisEvent(event_id, user_id, session_id, decision_id, emotion_intensity) ==
    [event_id |-> event_id, user_id |-> user_id, session_id |-> session_id,
     decision_id |-> decision_id, emotion_intensity |-> emotion_intensity]

\* AgentDecisions: user_id NOT NULL REFERENCES Users, session_id REFERENCES
\* ConversationSessions, CHECK (next_action IN (...))
AgentDecisionAccepted(row) ==
    /\ row.user_id \in Users
    /\ row.session_id = NULL
          \/ \E s \in ConversationSessions : s.session_id = row.session_id
    /\ row.next_action \in {"normal_reply", "support_suggestion", "crisis_flow"}

\* CrisisEvents: user_id and decision_id NOT NULL with their references,
\* session_id a nullable reference; `decisions` is the table the row sees
CrisisEventAccepted(row, decisions) ==
    /\ row.user_id \in Users
    /\ row.session_id = NULL
          \/ \E s \in ConversationSessions : s.session_id = row.session_id
    /\ \E d \in decisions : d.decision_id = row.decision_id

\* ON DELETE CASCADE of AgentDecisions.user_id and AgentDecisions.session_id
decisionsAfterDelete(goneUsers, goneSessions) ==
    {d \in AgentDecisions : d.user_id \notin goneUsers /\ d.session_id \notin goneSessions}

\* CrisisEvents.decision_id ... ON DELETE CASCADE kept out: the events stay
eventsKeptAfterDecisions(events, decisions) == events

\* CrisisEvents.decision_id ... ON DELETE CASCADE
eventsAfterDecisions(events, decisions) ==
    {e \in events : \E d \in decisions : d.decision_id = e.decision_id}

\* CrisisEvents: user_id ON DELETE CASCADE, session_id ON DELETE SET NULL,
\* then the cascade from the decisions that went
eventsAfterDelete(goneUsers, goneSessions, decisions) ==
    LET kept == {e \in CrisisEvents : e.user_id \notin goneUsers}
        nulled == {[e EXCEPT !.session_id = IF @ \in goneSessions THEN NULL ELSE @] :
                      e \in kept}
    IN  eventsAfterDecisions(nulled, decisions)

\* a reference that ON DELETE SET NULL clears when its decision went
decisionRefAfter(ref, decisions) ==
    IF \E d \in decisions : d.decision_id = ref THEN ref ELSE NULL

\* ConversationMessages.session_id ... ON DELETE CASCADE left out
messagesKeptAfterDelete(goneSessions, decisions) == ConversationMessages

\* ConversationMessages: session_id ON DELETE CASCADE, decision_id ON
\* DELETE SET NULL
messagesAfterDelete(goneSessions, decisions) ==
    {[m EXCEPT !.decision_id = decisionRefAfter(@, decisions)] :
        m \in {x \in ConversationMessages : x.session_id \notin goneSessions}}

\* SuggestionLog: user_id ON DELETE CASCADE, session_id and decision_id ON
\* DELETE SET NULL
logsAfterDelete(goneUsers, goneSessions, decisions) ==
    {[l EXCEPT !.session_id = IF @ \in goneSessions THEN NULL ELSE @,
               !.decision_id = decisionRefAfter(@, decisions)] :
        l \in {x \in SuggestionLog : x.user_id \notin goneUsers}}

\* the tables with a SERIAL or generated key of their own
Tables == {"EmergencyContacts", "MoodEntries", "ConversationMessages",
           "TherapeuticGoals", "SuggestionLog"}

InitTables ==
    /\ EmergencyContacts = {}
    /\ MoodEntries = {}
    /\ ConversationMessages = {}
    /\ TherapeuticGoals = {}
    /\ SuggestionLog = {}
    /\ serial = [t \in Tables |-> 0]

InitDB ==
    /\ Users = {}
    /\ ConversationSessions = {}
    /\ AgentDecisions = {}
    /\ CrisisEvents = {}
    /\ nextRowId = 1
    /\ lastDecision = [label |-> "none", intensity |-> 0, next_action |-> "none"]
    /\ reportedFailures = 0

\* INSERT INTO Users: user_id DEFAULT gen_random_uuid()
InsertUser ==
    /\ nextRowId <= MaxRows
    /\ Cardinality(Users) < MaxUsers
    /\ Users' = Users \cup {nextRowId}
    /\ nextRowId' = nextRowId + 1
    /\ UNCHANGED <<ConversationSessions, AgentDecisions, CrisisEvents,
                   lastDecision, reportedFailures>>
    /\ UNCHANGED <<chatVars, moodVars, tableVars, extVars>>

\* INSERT INTO ConversationSessions: user_id NOT NULL REFERENCES Users
InsertSession(u) ==
    /\ nextRowId <= MaxRows
    /\ u \in Users
    /\ Cardinality(ConversationSessions) < MaxSessions
    /\ ConversationSessions' =
          ConversationSessions \cup {[session_id |-> nextRowId, user_id |-> u]}
    /\ nextRowId' = nextRowId + 1
    /\ UNCHANGED <<Users, AgentDecisions, CrisisEvents, lastDecision, reportedFailures>>
    /\ UNCHANGED <<chatVars, moodVars, tableVars, extVars>>

\* DELETE FROM Users: the cascades to sessions, decisions and events
DeleteUser(u) ==
    /\ u \in Users
    /\ LET goneSessions == {s.session_id : s \in {x \in ConversationSessions : x.user_id = u}}
           decisions == decisionsAfterDelete({u}, goneSessions)
       IN  /\ Users' = Users \ {u}
           /\ ConversationSessions' = {s \in ConversationSessions : s.user_id # u}
           /\ AgentDecisions' = decisions
           /\ CrisisEvents' = eventsAfterDelete({u}, goneSessions, decisions)
           /\ EmergencyContacts' = {c \in EmergencyContacts : c.user_id # u}
           /\ MoodEntries' = {m \in MoodEntries : m.user_id # u}
           /\ ConversationMessages' = messagesAfterDelete(goneSessions, decisions)
           /\ TherapeuticGoals' = {g \in TherapeuticGoals : g.user_id # u}
           /\ SuggestionLog' = logsAfterDelete({u}, goneSessions, decisions)
    /\ UNCHANGED <<nextRowId, lastDecision, reportedFailures, serial>>
    /\ UNCHANGED <<chatVars, moodVars, extVars>>

\* DELETE FROM ConversationSessions
DeleteSession(sid) ==
    /\ \E s \in ConversationSessions : s.session_id = sid
    /\ LET decisions == decisionsAfterDelete({}, {sid})
       IN  /\ ConversationSessions' = {s \in ConversationSessions : s.session_id # sid}
           /\ AgentDecisions' = decisions
           /\ CrisisEvents' = eventsAfterDelete({}, {sid}, decisions)
           /\ ConversationMessages' = messagesAfterDelete({sid}, decisions)
           /\ SuggestionLog' = logsAfterDelete({}, {sid}, decisions)
    /\ UNCHANGED <<Users, nextRowId, lastDecision, reportedFailures>>
    /\ UNCHANGED <<EmergencyContacts, MoodEntries, TherapeuticGoals, serial>>
    /\ UNCHANGED <<chatVars, moodVars, extVars>>

\* where the store may refuse a write of the transaction
WriteFailures == {"none", "decision", "crisis"}

\* the decision and crisis-event write of spec 4.2, in one transaction: the
\* AgentDecision row always, the CrisisEvent row iff crisis_flow; a refused
\* write rolls both back
persistDecision(decision, event, isCrisis, failAt) ==
    LET ok == /\ failAt = "none"
              /\ AgentDecisionAccepted(decision)
              /\ isCrisis => CrisisEventAccepted(event, AgentDecisions \cup {decision})
    IN  IF ~ok
        THEN [ok |-> FALSE, decisions |-> AgentDecisions, events |-> CrisisEvents]
        ELSE [ok |-> TRUE, decisions |-> AgentDecisions \cup {decision},
              events |-> IF isCrisis THEN CrisisEvents \cup {event} ELSE CrisisEvents]

\* one inbound user message: classify, route, persist, report a failed
\* write, and return the decision to the caller either way
HandleInboundMessage(u, sid, text, c, failAt) ==
    /\ nextRowId + 1 <= MaxRows
    /\ u \in Users
    /\ sid = NULL \/ \E s \in ConversationSessions : s.session_id = sid /\ s.user_id = u
    /\ c \in Classifications(text)
    /\ failAt # "none" => reportedFailures < MaxFailures
    /\ LET next_action == DecisionRouter(c.label, c.intensity)
           decision == AgentDecision(nextRowId, u, sid, c.label, c.intensity, next_action)
           event == CrisisEvent(nextRowId + 1, u, sid, nextRowId, c.intensity)
           written == persistDecision(decision, event, next_action = "crisis_flow", failAt)
       IN  /\ AgentDecisions' = written.decisions
           /\ CrisisEvents' = written.events
           /\ reportedFailures' = IF written.ok THEN reportedFailures
                                  ELSE reportedFailures + 1
           /\ nextRowId' = IF written.ok THEN nextRowId + 2 ELSE nextRowId
           /\ lastDecision' = [label |-> c.label, intensity |-> c.intensity,
                               next_action |-> next_action]
    /\ UNCHANGED <<Users, ConversationSessions>>
    /\ UNCHANGED <<chatVars, moodVars, tableVars, extVars>>

SessionIds == {s.session_id : s \in ConversationSessions} \cup {NULL}

NextDB ==
    \/ InsertUser
    \/ \E u \in Users : InsertSession(u)
    \/ \E u \in Users : DeleteUser(u)
    \/ \E sid \in SessionIds : DeleteSession(sid)
    \/ \E u \in Users, sid \in SessionIds, text \in {TextHi, TextWantToDie},
          failAt \in WriteFailures :
          \E c \in Classifications(text) : HandleInboundMessage(u, sid, text, c, failAt)

(* ============== the tables written by plain SQL statements ============= *)
EmergencyContact(contact_id, user_id) ==
    [contact_id |-> contact_id, user_id |-> user_id]

\* sentiment_intensity is nullable: << >> is NULL, <<v>> the value v
MoodEntriesRow(entry_id, user_id, mood_score, sentiment_intensity) ==
    [entry_id |-> entry_id, user_id |-> user_id, mood_score |-> mood_score,
     sentiment_intensity |-> sentiment_intensity]

ConversationMessage(message_id, session_id, decision_id) ==
    [message_id |-> message_id, session_id |-> session_id, decision_id |-> decision_id]

TherapeuticGoal(goal_id, user_id) ==
    [goal_id |-> goal_id, user_id |-> user_id]

SuggestionLogRow(log_id, user_id, session_id, decision_id) ==
    [log_id |-> log_id, user_id |-> user_id, session_id |-> session_id,
     decision_id |-> decision_id]

\* an intensity of the range 0.0 .. 1.0, in tenths
validIntensity(v) == v >= 0 /\ v <= 10

sessionRefAccepted(ref) ==
    ref = NULL \/ \E x \in ConversationSessions : x.session_id = ref

decisionRefAccepted(ref) ==
    ref = NULL \/ \E d \in AgentDecisions : d.decision_id = ref

\* MoodEntries: user_id NOT NULL REFERENCES Users, CHECK (mood_score ...),
\* CHECK (sentiment_intensity ...), which a NULL passes
MoodEntriesAccepted(row) ==
    /\ row.user_id \in Users
    /\ row.mood_score >= 1 /\ row.mood_score <= 10
    /\ IF row.sentiment_intensity = <<>> THEN TRUE
       ELSE validIntensity(row.sentiment_intensity[1])

\* ConversationMessages: session_id NOT NULL REFERENCES
\* ConversationSessions, decision_id REFERENCES AgentDecisions
ConversationMessageAccepted(row) ==
    /\ row.session_id # NULL /\ sessionRefAccepted(row.session_id)
    /\ decisionRefAccepted(row.decision_id)

\* SuggestionLog: user_id NOT NULL REFERENCES Users, session_id and
\* decision_id nullable references
SuggestionLogAccepted(row) ==
    /\ row.user_id \in Users
    /\ sessionRefAccepted(row.session_id)
    /\ decisionRefAccepted(row.decision_id)

\* the key a table generates for its next row
nextSerial(t) == serial[t] + 1

InsertEmergencyContact(u) ==
    /\ serial["EmergencyContacts"] < MaxTableRows
    /\ u \in Users
    /\ EmergencyContacts' = EmergencyContacts \cup
          {EmergencyContact(nextSerial("EmergencyContacts"), u)}
    /\ serial' = [serial EXCEPT !["EmergencyContacts"] = @ + 1]
    /\ UNCHANGED <<MoodEntries, ConversationMessages, TherapeuticGoals, SuggestionLog>>
    /\ UNCHANGED <<chatVars, moodVars, dbVars, extVars>>

InsertMoodEntry(u, mood_score, sentiment_intensity) ==
    /\ serial["MoodEntries"] < MaxTableRows
    /\ LET row == MoodEntriesRow(nextSerial("MoodEntries"), u, mood_score,
                                 sentiment_intensity)
       IN  /\ MoodEntriesAccepted(row)
           /\ MoodEntries' = MoodEntries \cup {row}
    /\ serial' = [serial EXCEPT !["MoodEntries"] = @ + 1]
    /\ UNCHANGED <<EmergencyContacts, ConversationMessages, TherapeuticGoals,
                   SuggestionLog>>
    /\ UNCHANGED <<chatVars, moodVars, dbVars, extVars>>

InsertAgentDecision(u, sid, emotion_intensity, next_action) ==
    /\ nextRowId <= MaxRows
    /\ Cardinality(AgentDecisions) < MaxTableRows
    /\ LET row == AgentDecision(nextRowId, u, sid, "sadness", emotion_intensity,
                                next_action)
       IN  /\ AgentDecisionAccepted(row)
           /\ AgentDecisions' = AgentDecisions \cup {row}
    /\ nextRowId' = nextRowId + 1
    /\ UNCHANGED <<Users, ConversationSessions, CrisisEvents, lastDecision,
                   reportedFailures>>
    /\ UNCHANGED <<chatVars, moodVars, tableVars, extVars>>

InsertConversationMessage(sid, did) ==
    /\ serial["ConversationMessages"] < MaxTableRows
    /\ LET row == ConversationMessage(nextSerial("ConversationMessages"), sid, did)
       IN  /\ ConversationMessageAccepted(row)
           /\ ConversationMessages' = ConversationMessages \cup {row}
    /\ serial' = [serial EXCEPT !["ConversationMessages"] = @ + 1]
    /\ UNCHANGED <<EmergencyContacts, MoodEntries, TherapeuticGoals, SuggestionLog>>
    /\ UNCHANGED <<chatVars, moodVars, dbVars, extVars>>

InsertCrisisEvent(u, sid, did, emotion_intensity) ==
    /\ nextRowId <= MaxRows
    /\ Cardinality(CrisisEvents) < MaxTableRows
    /\ LET row == CrisisEvent(nextRowId, u, sid, did, emotion_intensity)
       IN  /\ CrisisEventAccepted(row, AgentDecisions)
           /\ CrisisEvents' = CrisisEvents \cup {row}
    /\ nextRowId' = nextRowId + 1
    /\ UNCHANGED <<Users, ConversationSessions, AgentDecisions, lastDecision,
                   reportedFailures>>
    /\ UNCHANGED <<chatVars, moodVars, tableVars, extVars>>

InsertTherapeuticGoal(u) ==
    /\ serial["TherapeuticGoals"] < MaxTableRows
    /\ u \in Users
    /\ TherapeuticGoals' = TherapeuticGoals \cup
          {TherapeuticGoal(nextSerial("TherapeuticGoals"), u)}
    /\ serial' = [serial EXCEPT !["TherapeuticGoals"] = @ + 1]
    /\ UNCHANGED <<EmergencyContacts, MoodEntries, ConversationMessages, SuggestionLog>>
    /\ UNCHANGED <<chatVars, moodVars, dbVars, extVars>>

InsertSuggestionLog(u, sid, did) ==
    /\ serial["SuggestionLog"] < MaxTableRows
    /\ LET row == SuggestionLogRow(nextSerial("SuggestionLog"), u, sid, did)
       IN  /\ SuggestionLogAccepted(row)
           /\ SuggestionLog' = SuggestionLog \cup {row}
    /\ serial' = [serial EXCEPT !["SuggestionLog"] = @ + 1]
    /\ UNCHANGED <<EmergencyContacts, MoodEntries, ConversationMessages, TherapeuticGoals>>
    /\ UNCHANGED <<chatVars, moodVars, dbVars, extVars>>

DecisionIds == {d.decision_id : d \in AgentDecisions} \cup {NULL}

\* the intensities a statement may carry: both ends of the range and the
\* values just outside it
IntensityInputs == {MinIntensityInput, 0, 10, MaxIntensityInput}
SentimentInputs == {<<>>} \cup {<<v>> : v \in IntensityInputs}

\* statements that carry an intensity
NextIntensity ==
    \/ InsertUser
    \/ \E u \in Users, s \in SentimentInputs : InsertMoodEntry(u, 5, s)
    \/ \E u \in Users, v \in IntensityInputs, a \in Actions :
          InsertAgentDecision(u, NULL, v, a)
    \/ \E u \in Users, did \in DecisionIds, v \in IntensityInputs :
          InsertCrisisEvent(u, NULL, did, v)
    \/ \E u \in Users : DeleteUser(u)

\* statements over all the tables, with values every CHECK accepts
NextSchema ==
    \/ InsertUser
    \/ \E u \in Users : InsertSession(u)
    \/ \E u \in Users : InsertEmergencyContact(u)
    \/ \E u \in Users : InsertMoodEntry(u, 5, <<>>)
    \/ \E u \in Users, sid \in SessionIds : InsertAgentDecision(u, sid, 10, "crisis_flow")
    \/ \E sid \in SessionIds, did \in DecisionIds : InsertConversationMessage(sid, did)
    \/ \E u \in Users, sid \in SessionIds, did \in DecisionIds :
          InsertCrisisEvent(u, sid, did, 10)
    \/ \E u \in Users : InsertTherapeuticGoal(u)
    \/ \E u \in Users, sid \in SessionIds, did \in DecisionIds :
          InsertSuggestionLog(u, sid, did)
    \/ \E u \in Users : DeleteUser(u)
    \/ \E sid \in SessionIds : DeleteSession(sid)

(* ===================== authentication (authService.ts) ================= *)
tokenKey == "auth_token"
userKey == "auth_user"
AuthKeys == {tokenKey, userKey}
\* the item callAIAPIStream removes on a 401
streamAuthKey == "auth"
StorageKeys == AuthKeys \cup {streamAuthKey}

\* Storage.getItem, setItem, removeItem and clear: << >> is null
getItem(storage, key) == storage[key]
setItem(storage, key, value) == [storage EXCEPT ![key] = <<value>>]
removeItem(storage, key) == [storage EXCEPT ![key] = <<>>]
clear == [k \in StorageKeys |-> <<>>]

\* what the server answers: access_token, and the user of the login or of
\* a later GET/PUT /api/auth/me
AccessToken == "jwt"
UserAtLogin == "user"
UserAfterUpdate == "user, updated"

\* a || b of two items that are strings or null
orElse(a, b) == IF a # <<>> /\ a # <<"">> THEN a ELSE b

\* AuthService.getToken: localToken || sessionToken
getToken == orElse(getItem(localStorage, tokenKey), getItem(sessionStorage, tokenKey))

\* AuthService.isAuthenticated: getToken() !== null
isAuthenticated == getToken # <<>>

\* AuthService.getCurrentUser: the parsed item, or null
getCurrentUser == orElse(getItem(localStorage, userKey), getItem(sessionStorage, userKey))

\* the two main.tsx of the repository: the one that renders <App /> after
\* its DEBUG_MODE block, and the one with the routes / and /chat
EntryPoints == {"App", "rootRoutes"}
Paths == {"/", "/login", "/app", "/chat", "/profile"}
ProtectedPages == {"MoodJournalPage", "ChatPage", "ProfilePage"}

pageOf(path) ==
    IF path = "/app" THEN "MoodJournalPage"
    ELSE IF path = "/chat" THEN "ChatPage" ELSE "ProfilePage"

\* ProtectedRoute: without a token, navigate to /login and render no
\* child; LoginPage: with a token, navigate to /app
RouteOfApp(path, authToken) ==
    IF path \in {"/app", "/chat", "/profile"}
    THEN IF authToken = <<>> \/ authToken = <<"">>
         THEN [location |-> "/login", rendered |-> "LoginPage"]
         ELSE [location |-> path, rendered |-> pageOf(path)]
    ELSE IF authToken = <<>> \/ authToken = <<"">>
         THEN [location |-> "/login", rendered |-> "LoginPage"]
         ELSE [location |-> "/app", rendered |-> "MoodJournalPage"]

\* the routes of frontend/src/main.tsx
RouteOfRoot(path) ==
    IF path = "/" THEN [location |-> path, rendered |-> "MoodJournalPage"]
    ELSE IF path = "/chat" THEN [location |-> path, rendered |-> "ChatPage"]
    ELSE [location |-> path, rendered |-> "none"]

Route(path, local, session) ==
    IF entryPoint = "App"
    THEN RouteOfApp(path, orElse(getItem(local, tokenKey), getItem(session, tokenKey)))
    ELSE RouteOfRoot(path)

\* the storage before the first page load: no item, or what an earlier
\* visit left
StoragesLeft == {clear, setItem(setItem(clear, tokenKey, AccessToken), userKey, UserAtLogin)}

InitAuth ==
    /\ localStorage \in StoragesLeft
    /\ sessionStorage \in StoragesLeft
    /\ entryPoint \in EntryPoints
    /\ location = "/"
    /\ rendered = "none"
    /\ profileRequests = 0
    /\ loginRequests = 0
    /\ loggedOut = FALSE
    /\ remembered = FALSE
    /\ unauthorizedBy = "none"

\* the storages after the startup code of main.tsx: DEBUG_MODE is true
localAfterStart == IF entryPoint = "App" THEN clear ELSE localStorage
sessionAfterStart == IF entryPoint = "App" THEN clear ELSE sessionStorage

\* a page load of `path`: main.tsx runs, then the router renders; the
\* requests of the page that went are dropped
loadPage(path) ==
    /\ localStorage' = localAfterStart
    /\ sessionStorage' = sessionAfterStart
    /\ location' = Route(path, localAfterStart, sessionAfterStart).location
    /\ rendered' = Route(path, localAfterStart, sessionAfterStart).rendered
    /\ profileRequests' = 0
    /\ loginRequests' = 0
    /\ UNCHANGED <<entryPoint, loggedOut, remembered>>
    /\ UNCHANGED unauthorizedBy
    /\ UNCHANGED <<chatVars, moodVars, dbVars, tableVars, localeVars, suggestionVars, registerVars, chunkVars>>

\* the tab is closed: its session storage goes
closeTab ==
    /\ rendered # "none"
    /\ sessionStorage' = clear
    /\ rendered' = "none"
    /\ profileRequests' = 0
    /\ loginRequests' = 0
    /\ UNCHANGED <<localStorage, entryPoint, location, loggedOut, remembered>>
    /\ UNCHANGED unauthorizedBy
    /\ UNCHANGED <<chatVars, moodVars, dbVars, tableVars, localeVars, suggestionVars, registerVars, chunkVars>>

\* navigate(path) inside the running application
navigate(path) ==
    /\ rendered # "none"
    /\ location' = Route(path, localStorage, sessionStorage).location
    /\ rendered' = Route(path, localStorage, sessionStorage).rendered
    /\ UNCHANGED <<localStorage, sessionStorage, entryPoint, profileRequests,
                   loginRequests, loggedOut, remembered>>
    /\ UNCHANGED unauthorizedBy
    /\ UNCHANGED <<chatVars, moodVars, dbVars, tableVars, localeVars, suggestionVars, registerVars, chunkVars>>

\* LoginPage.handleSubmit up to the await of authService.login
handleSubmit ==
    /\ rendered = "LoginPage"
    /\ loginRequests < MaxAuthRequests
    /\ loginRequests' = loginRequests + 1
    /\ UNCHANGED <<localStorage, sessionStorage, entryPoint, location, rendered,
                   profileRequests, loggedOut, remembered>>
    /\ UNCHANGED unauthorizedBy
    /\ UNCHANGED <<chatVars, moodVars, dbVars, tableVars, localeVars, suggestionVars, registerVars, chunkVars>>

\* AuthService.login after a 200 answer, and the navigate('/app') of
\* LoginPage
loginSucceeds(rememberMe) ==
    /\ loginRequests > 0
    /\ loginRequests' = loginRequests - 1
    /\ LET local == IF rememberMe
                    THEN setItem(setItem(localStorage, tokenKey, AccessToken),
                                 userKey, UserAtLogin)
                    ELSE localStorage
           session == IF rememberMe THEN sessionStorage
                      ELSE setItem(setItem(sessionStorage, tokenKey, AccessToken),
                                   userKey, UserAtLogin)
       IN  /\ localStorage' = local
           /\ sessionStorage' = session
           /\ location' = Route("/app", local, session).location
           /\ rendered' = Route("/app", local, session).rendered
    /\ loggedOut' = FALSE
    /\ remembered' = (rememberMe \/ remembered)
    /\ UNCHANGED <<entryPoint, profileRequests>>
    /\ unauthorizedBy' = "none"
    /\ UNCHANGED <<chatVars, moodVars, dbVars, tableVars, localeVars, suggestionVars, registerVars, chunkVars>>

\* AuthService.login after a 401 or another failure: LoginPage shows it
loginFails ==
    /\ loginRequests > 0
    /\ loginRequests' = loginRequests - 1
    /\ UNCHANGED <<localStorage, sessionStorage, entryPoint, location, rendered,
                   profileRequests, loggedOut, remembered>>
    /\ UNCHANGED unauthorizedBy
    /\ UNCHANGED <<chatVars, moodVars, dbVars, tableVars, localeVars, suggestionVars, registerVars, chunkVars>>

\* sessionStorage.removeItem of logout() left out
sessionKeptAfterLogout == sessionStorage

\* AuthService.logout: the items it leaves in each storage
localAfterLogout == removeItem(removeItem(localStorage, tokenKey), userKey)
sessionAfterLogout == removeItem(removeItem(sessionStorage, tokenKey), userKey)

\* ProfilePage.handleLogout: authService.logout(); navigate('/login')
handleLogout ==
    /\ rendered = "ProfilePage"
    /\ localStorage' = localAfterLogout
    /\ sessionStorage' = sessionAfterLogout
    /\ location' = Route("/login", localAfterLogout, sessionAfterLogout).location
    /\ rendered' = Route("/login", localAfterLogout, sessionAfterLogout).rendered
    /\ loggedOut' = TRUE
    /\ remembered' = FALSE
    /\ UNCHANGED <<entryPoint, profileRequests, loginRequests>>
    /\ UNCHANGED unauthorizedBy
    /\ UNCHANGED <<chatVars, moodVars, dbVars, tableVars, localeVars, suggestionVars, registerVars, chunkVars>>

\* ProfilePage: getCurrentUserFromServer or updateProfile up to its await
requestProfile ==
    /\ rendered = "ProfilePage"
    /\ profileRequests < MaxAuthRequests
    /\ profileRequests' = profileRequests + 1
    /\ UNCHANGED <<localStorage, sessionStorage, entryPoint, location, rendered,
                   loginRequests, loggedOut, remembered>>
    /\ UNCHANGED unauthorizedBy
    /\ UNCHANGED <<chatVars, moodVars, dbVars, tableVars, localeVars, suggestionVars, registerVars, chunkVars>>

\* getCurrentUserFromServer / updateProfile after the answer: the user is
\* stored next to the token, if there is one
profileResponds(ok) ==
    /\ profileRequests > 0
    /\ profileRequests' = profileRequests - 1
    /\ IF ~ok
       THEN UNCHANGED <<localStorage, sessionStorage>>
       ELSE IF orElse(getItem(localStorage, tokenKey), <<>>) # <<>>
            THEN /\ localStorage' = setItem(localStorage, userKey, UserAfterUpdate)
                 /\ UNCHANGED sessionStorage
            ELSE IF orElse(getItem(sessionStorage, tokenKey), <<>>) # <<>>
                 THEN /\ sessionStorage' = setItem(sessionStorage, userKey, UserAfterUpdate)
                      /\ UNCHANGED localStorage
                 ELSE UNCHANGED <<localStorage, sessionStorage>>
    /\ UNCHANGED <<entryPoint, location, rendered, loginRequests, loggedOut, remembered>>
    /\ UNCHANGED unauthorizedBy
    /\ UNCHANGED <<chatVars, moodVars, dbVars, tableVars, localeVars, suggestionVars, registerVars, chunkVars>>

\* the response interceptor of apiClient on a 401: authService.logout(),
\* then window.location.href = '/login', which loads the page anew
unauthorized ==
    /\ rendered \in ProtectedPages
    /\ LET local == IF entryPoint = "App" THEN clear ELSE localAfterLogout
           session == IF entryPoint = "App" THEN clear ELSE sessionAfterLogout
       IN  /\ localStorage' = local
           /\ sessionStorage' = session
           /\ location' = Route("/login", local, session).location
           /\ rendered' = Route("/login", local, session).rendered
    /\ profileRequests' = 0
    /\ loginRequests' = 0
    /\ loggedOut' = TRUE
    /\ remembered' = FALSE
    /\ UNCHANGED entryPoint
    /\ unauthorizedBy' = "apiClient"
    /\ UNCHANGED <<chatVars, moodVars, dbVars, tableVars, localeVars, suggestionVars, registerVars, chunkVars>>

\* callAIAPIStream on a 401 answer of /api/chat/stream, in the chat of
\* MoodJournalPage (the request left with a token): removeItem('auth'),
\* then window.location.href = '/login', which loads the page anew
streamUnauthorized ==
    /\ rendered = "MoodJournalPage"
    /\ isAuthenticated
    /\ LET local == IF entryPoint = "App" THEN clear
                    ELSE removeItem(localStorage, streamAuthKey)
           session == IF entryPoint = "App" THEN clear ELSE sessionStorage
       IN  /\ localStorage' = local
           /\ sessionStorage' = session
           /\ location' = Route("/login", local, session).location
           /\ rendered' = Route("/login", local, session).rendered
    /\ profileRequests' = 0
    /\ loginRequests' = 0
    /\ unauthorizedBy' = "stream"
    /\ UNCHANGED <<entryPoint, loggedOut, remembered>>
    /\ UNCHANGED <<chatVars, moodVars, dbVars, tableVars, localeVars, suggestionVars, registerVars, chunkVars>>

NextAuth ==
    \/ \E path \in Paths : loadPage(path)
    \/ closeTab
    \/ \E path \in Paths : navigate(path)
    \/ handleSubmit
    \/ \E rememberMe \in BOOLEAN : loginSucceeds(rememberMe)
    \/ loginFails
    \/ handleLogout
    \/ requestProfile
    \/ \E ok \in BOOLEAN : profileResponds(ok)
    \/ unauthorized
    \/ streamUnauthorized

(* ===================== the Suggestions tab ============================= *)
Tabs == {"chat", "journal", "trends", "suggestions"}
TimeRanges == {"today", "week", "month", "custom"}
\* what a date picker yields: nothing, or a day
Dates == {"", "2025-01-01"}

\* the query of suggestionsService.getSuggestions: the dates go along only
\* with the custom range and only when both are set
params(timeRange, startDate, endDate) ==
    IF timeRange = "custom" /\ startDate # "" /\ endDate # ""
    THEN [time_range |-> timeRange, start_date |-> <<startDate>>,
          end_date |-> <<endDate>>]
    ELSE [time_range |-> timeRange, start_date |-> <<>>, end_date |-> <<>>]

\* the query of the selection on the screen
selectedParams ==
    params(suggestionsTimeRange, suggestionsStartDate, suggestionsEndDate)

\* response.suggestions of the call with this query: the cards are told
\* apart by the query they answer
suggestionsOf(query) == <<query>>

InitSuggestions ==
    /\ activeTab = "chat"
    /\ suggestionsTimeRange = "week"
    /\ suggestionsStartDate = ""
    /\ suggestionsEndDate = ""
    /\ suggestions = <<>>
    /\ suggestionsLoading = FALSE
    /\ suggestionRequests = <<>>
    /\ loadFailures = 0

\* loadSuggestions up to its await: the flag is raised and the call leaves
\* with the selection of the render the closure belongs to
loadSuggestions(timeRange, startDate, endDate) ==
    /\ Len(suggestionRequests) < MaxSuggestionRequests
    /\ suggestionsLoading' = TRUE
    /\ suggestionRequests' =
           Append(suggestionRequests, params(timeRange, startDate, endDate))

\* the effect on [activeTab, suggestionsTimeRange, suggestionsStartDate,
\* suggestionsEndDate], run after the render that changed one of them
suggestionsEffect(tab, timeRange, startDate, endDate) ==
    IF tab = "suggestions"
    THEN loadSuggestions(timeRange, startDate, endDate)
    ELSE UNCHANGED <<suggestionsLoading, suggestionRequests>>

\* a tab button: setActiveTab(tab); the same tab again renders nothing anew
setActiveTab(tab) ==
    /\ tab # activeTab
    /\ activeTab' = tab
    /\ suggestionsEffect(tab, suggestionsTimeRange, suggestionsStartDate,
                         suggestionsEndDate)
    /\ UNCHANGED <<suggestionsTimeRange, suggestionsStartDate,
                   suggestionsEndDate, suggestions, loadFailures>>
    /\ UNCHANGED <<chatVars, moodVars, dbVars, tableVars, authVars, localeVars, registerVars, chunkVars>>

\* a button of Analysis Time Range, on the Suggestions tab
setSuggestionsTimeRange(range) ==
    /\ activeTab = "suggestions"
    /\ range # suggestionsTimeRange
    /\ suggestionsTimeRange' = range
    /\ suggestionsEffect(activeTab, range, suggestionsStartDate,
                         suggestionsEndDate)
    /\ UNCHANGED <<activeTab, suggestionsStartDate, suggestionsEndDate,
                   suggestions, loadFailures>>
    /\ UNCHANGED <<chatVars, moodVars, dbVars, tableVars, authVars, localeVars, registerVars, chunkVars>>

\* the date pickers, shown with the custom range
setSuggestionsStartDate(date) ==
    /\ activeTab = "suggestions"
    /\ suggestionsTimeRange = "custom"
    /\ date # suggestionsStartDate
    /\ suggestionsStartDate' = date
    /\ suggestionsEffect(activeTab, suggestionsTimeRange, date,
                         suggestionsEndDate)
    /\ UNCHANGED <<activeTab, suggestionsTimeRange, suggestionsEndDate,
                   suggestions, loadFailures>>
    /\ UNCHANGED <<chatVars, moodVars, dbVars, tableVars, authVars, localeVars, registerVars, chunkVars>>

setSuggestionsEndDate(date) ==
    /\ activeTab = "suggestions"
    /\ suggestionsTimeRange = "custom"
    /\ date # suggestionsEndDate
    /\ suggestionsEndDate' = date
    /\ suggestionsEffect(activeTab, suggestionsTimeRange,
                         suggestionsStartDate, date)
    /\ UNCHANGED <<activeTab, suggestionsTimeRange, suggestionsStartDate,
                   suggestions, loadFailures>>
    /\ UNCHANGED <<chatVars, moodVars, dbVars, tableVars, authVars, localeVars, registerVars, chunkVars>>

\* the Refresh button: onClick={loadSuggestions}
refreshSuggestions ==
    /\ activeTab = "suggestions"
    /\ loadSuggestions(suggestionsTimeRange, suggestionsStartDate,
                       suggestionsEndDate)
    /\ UNCHANGED <<activeTab, suggestionsTimeRange, suggestionsStartDate,
                   suggestionsEndDate, suggestions, loadFailures>>
    /\ UNCHANGED <<chatVars, moodVars, dbVars, tableVars, authVars, localeVars, registerVars, chunkVars>>

\* a sequence without its i-th element
without(seq, i) ==
    [j \in 1..(Len(seq) - 1) |-> IF j < i THEN seq[j] ELSE seq[j + 1]]

\* the i-th call in flight resolves: loadSuggestions from its await on,
\* setSuggestions(response.suggestions) and the finally
getSuggestionsResolves(i) ==
    /\ i \in 1..Len(suggestionRequests)
    /\ suggestions' = suggestionsOf(suggestionRequests[i])
    /\ suggestionsLoading' = FALSE
    /\ suggestionRequests' = without(suggestionRequests, i)
    /\ UNCHANGED <<activeTab, suggestionsTimeRange, suggestionsStartDate,
                   suggestionsEndDate, loadFailures>>
    /\ UNCHANGED <<chatVars, moodVars, dbVars, tableVars, authVars, localeVars, registerVars, chunkVars>>

\* the i-th call in flight rejects: the catch and the finally
getSuggestionsRejects(i) ==
    /\ i \in 1..Len(suggestionRequests)
    /\ loadFailures < MaxLoadFailures
    /\ loadFailures' = loadFailures + 1
    /\ suggestionsLoading' = FALSE
    /\ suggestionRequests' = without(suggestionRequests, i)
    /\ UNCHANGED <<activeTab, suggestionsTimeRange, suggestionsStartDate,
                   suggestionsEndDate, suggestions>>
    /\ UNCHANGED <<chatVars, moodVars, dbVars, tableVars, authVars, localeVars, registerVars, chunkVars>>

NextSuggestions ==
    \/ \E tab \in Tabs : setActiveTab(tab)
    \/ \E range \in TimeRanges : setSuggestionsTimeRange(range)
    \/ \E date \in Dates : setSuggestionsStartDate(date)
    \/ \E date \in Dates : setSuggestionsEndDate(date)
    \/ refreshSuggestions
    \/ \E i \in 1..MaxSuggestionRequests : getSuggestionsResolves(i)
    \/ \E i \in 1..MaxSuggestionRequests : getSuggestionsRejects(i)

(* ============================ RegisterPage ============================= *)
\* a string of n times the character c
Rep(c, n) == [i \in 1..n |-> c]

Digits == <<"0","1","2","3","4","5","6","7","8","9">>
WhiteSpace == {" ", "\t"}
isLetter(c) == \E i \in 1..Len(LowerCase) : c = LowerCase[i] \/ c = UpperCase[i]
isDigit(c) == \E i \in 1..Len(Digits) : c = Digits[i]

\* !text.trim() of RegisterPage
isBlank(text) == \A i \in 1..Len(text) : text[i] \in WhiteSpace

\* /^[a-zA-Z0-9_]+$/.test(text)
isWord(text) ==
    /\ Len(text) >= 1
    /\ \A i \in 1..Len(text) : isLetter(text[i]) \/ isDigit(text[i]) \/ text[i] = "_"

\* /^[^\s@]+$/.test(text)
isAtomOfEmail(text) ==
    /\ Len(text) >= 1
    /\ \A i \in 1..Len(text) : text[i] \notin WhiteSpace /\ text[i] # "@"

\* AuthService.validateEmail: /^[^\s@]+@[^\s@]+\.[^\s@]+$/
validateEmail(email) ==
    \E i, j \in 1..Len(email) :
        /\ i < j
        /\ email[i] = "@"
        /\ email[j] = "."
        /\ isAtomOfEmail(SubSeq(email, 1, i - 1))
        /\ isAtomOfEmail(SubSeq(email, i + 1, j - 1))
        /\ isAtomOfEmail(SubSeq(email, j + 1, Len(email)))

\* validatePassword without the test for a letter and a digit
validatePasswordLengthOnly(password) ==
    IF Len(password) < 6
    THEN [isValid |-> FALSE, message |-> "Password must be at least 6 characters"]
    ELSE IF Len(password) > 50
    THEN [isValid |-> FALSE, message |-> "Password must not exceed 50 characters"]
    ELSE [isValid |-> TRUE, message |-> "Password strength is good"]

\* AuthService.validatePassword
validatePassword(password) ==
    LET hasLetter == \E i \in 1..Len(password) : isLetter(password[i])
        hasNumber == \E i \in 1..Len(password) : isDigit(password[i])
    IN  IF Len(password) < 6
        THEN [isValid |-> FALSE, message |-> "Password must be at least 6 characters"]
        ELSE IF Len(password) > 50
        THEN [isValid |-> FALSE, message |-> "Password must not exceed 50 characters"]
        ELSE IF ~hasLetter \/ ~hasNumber
        THEN [isValid |-> FALSE,
              message |-> "Password must contain both letters and numbers"]
        ELSE [isValid |-> TRUE, message |-> "Password strength is good"]

NoErrors ==
    [username |-> <<>>, email |-> <<>>, password |-> <<>>,
     confirmPassword |-> <<>>, general |-> <<>>]

\* newErrors of validateForm
validateForm(data) ==
    [username |->
        IF isBlank(data.username) THEN <<"Please enter a username">>
        ELSE IF Len(data.username) < 3
        THEN <<"Username must be at least 3 characters">>
        ELSE IF Len(data.username) > 30
        THEN <<"Username must not exceed 30 characters">>
        ELSE IF ~isWord(data.username)
        THEN <<"Username can only contain letters, numbers, and underscores">>
        ELSE <<>>,
     email |->
        IF isBlank(data.email) THEN <<"Please enter an email address">>
        ELSE IF ~validateEmail(data.email)
        THEN <<"Please enter a valid email address">>
        ELSE <<>>,
     password |->
        IF data.password = <<>> THEN <<"Please enter a password">>
        ELSE IF ~validatePassword(data.password).isValid
        THEN <<validatePassword(data.password).message>>
        ELSE <<>>,
     confirmPassword |->
        IF data.confirmPassword = <<>> THEN <<"Please confirm your password">>
        ELSE IF data.password # data.confirmPassword
        THEN <<"Passwords do not match">>
        ELSE <<>>,
     general |-> <<>>]

\* what the user may type into the fields
Usernames ==
    {Rep(" ", 3), Rep("a", 2), <<"a", "_", "1">>, Rep("Z", 30), Rep("a", 31),
     <<"a", "-", "b">>}
Emails ==
    {<<>>, <<"a", "@", "b", ".", "c">>, <<"a", "@", "b", ".">>,
     <<"a", " ", "@", "b", ".", "c">>, <<"a", "@", "@", "b", ".", "c">>}
Passwords ==
    {<<>>, Rep("a", 4) \o <<"1">>, Rep("a", 5) \o <<"1">>, Rep("a", 6),
     Rep("a", 49) \o <<"1">>, Rep("a", 50) \o <<"1">>}
Confirmations == {<<>>, Rep("a", 5) \o <<"1">>, Rep("a", 49) \o <<"1">>}
Fields == {"username", "email", "password", "confirmPassword"}
FieldValues(name) ==
    IF name = "username" THEN Usernames
    ELSE IF name = "email" THEN Emails
    ELSE IF name = "password" THEN Passwords ELSE Confirmations

InitRegister ==
    /\ formData = [username |-> <<>>, email |-> <<>>, password |-> <<>>,
                   confirmPassword |-> <<>>]
    /\ errors = NoErrors
    /\ registerIsLoading = FALSE
    /\ passwordStrength = <<>>
    /\ registerSent = <<>>

\* RegisterPage.handleInputChange; the inputs are disabled while isLoading
registerInputChange(name, value) ==
    /\ ~registerIsLoading
    /\ formData' = [formData EXCEPT ![name] = value]
    /\ errors' = [errors EXCEPT ![name] = <<>>, !.general = <<>>]
    /\ passwordStrength' =
           IF name = "password"
           THEN IF value # <<>> THEN <<validatePassword(value)>> ELSE <<>>
           ELSE passwordStrength
    /\ UNCHANGED <<registerIsLoading, registerSent>>
    /\ UNCHANGED <<chatVars, moodVars, dbVars, tableVars, authVars, localeVars,
                   suggestionVars, chunkVars>>

\* RegisterPage.handleSubmit up to the await of authService.register; the
\* button is disabled while isLoading
registerSubmit ==
    /\ ~registerIsLoading
    /\ LET newErrors == validateForm(formData)
       IN  /\ errors' = newErrors
           /\ IF newErrors = NoErrors
              THEN /\ Len(registerSent) < MaxRegisterRequests
                   /\ registerIsLoading' = TRUE
                   /\ registerSent' = Append(registerSent, formData)
              ELSE UNCHANGED <<registerIsLoading, registerSent>>
    /\ UNCHANGED <<formData, passwordStrength>>
    /\ UNCHANGED <<chatVars, moodVars, dbVars, tableVars, authVars, localeVars,
                   suggestionVars, chunkVars>>

\* authService.register resolves: navigate('/login') takes the page away,
\* and a later visit mounts it anew
registerResolves ==
    /\ registerIsLoading
    /\ formData' = [username |-> <<>>, email |-> <<>>, password |-> <<>>,
                    confirmPassword |-> <<>>]
    /\ errors' = NoErrors
    /\ registerIsLoading' = FALSE
    /\ passwordStrength' = <<>>
    /\ UNCHANGED registerSent
    /\ UNCHANGED <<chatVars, moodVars, dbVars, tableVars, authVars, localeVars,
                   suggestionVars, chunkVars>>

\* authService.register rejects: the catch and the finally
registerRejects ==
    /\ registerIsLoading
    /\ errors' = [NoErrors EXCEPT !.general = <<"Registration failed">>]
    /\ registerIsLoading' = FALSE
    /\ UNCHANGED <<formData, passwordStrength, registerSent>>
    /\ UNCHANGED <<chatVars, moodVars, dbVars, tableVars, authVars, localeVars,
                   suggestionVars, chunkVars>>

NextRegister ==
    \/ \E name \in Fields : \E value \in FieldValues(name) :
          registerInputChange(name, value)
    \/ registerSubmit
    \/ registerResolves
    \/ registerRejects

(* ============ the read loop on a chunked response body ================= *)
\* what the body is made of: events, a comment line, a stray newline
WireEvents ==
    {ContentEvent("a"), ContentEvent("b"), MetadataEvent("crisis_flow"), DoneEvent}
EventUnits == {Encode(ev) : ev \in WireEvents} \cup {<<AtomC, AtomN, AtomN>>}
WireUnits == EventUnits \cup {<<AtomN>>}

RECURSIVE WiresOf(_, _)
WiresOf(units, n) ==
    IF n = 0 THEN {<<>>}
    ELSE LET shorter == WiresOf(units, n - 1)
         IN  shorter \cup {w \o u : w \in shorter, u \in units}

\* callAIAPIStream before the first read: the placeholder, an empty buffer
ReaderAtStart ==
    LoopState(<<Message(1, "assistant", <<>>, TRUE)>>, FALSE,
              [NoRequest EXCEPT !.pc = "reading", !.origin = "send",
                                !.streamingMessageId = 1, !.idx = 1])

InitChunks ==
    /\ wire \in WiresOf(WireUnits, MaxWireUnits) \ {<<>>}
    /\ offset = 0
    /\ reader = ReaderAtStart
    /\ spanned = FALSE

\* reader.read() yields the next n bytes: one turn of the while loop
readBytes(n) ==
    /\ n \in 1..(Len(wire) - offset)
    /\ reader' = loopBody(reader, SubSeq(wire, offset + 1, offset + n))
    /\ offset' = offset + n
    /\ spanned' = (spanned \/ reader'.r.buffer # <<>> \/ reader'.r.decoder # <<>>)
    /\ UNCHANGED wire
    /\ UNCHANGED <<chatVars, moodVars, dbVars, tableVars, authVars, localeVars,
                   suggestionVars, registerVars>>

NextChunks == \E n \in 1..Len(wire) : readBytes(n)

(* ========================= the specifications ========================== *)
vars == <<chatVars, moodVars, dbVars, tableVars, extVars>>

\* each part, before anything has happened in it
ChatIdle == InitChat /\ token
MoodIdle == InitMood /\ moodStorage = <<>>
DBIdle == InitDB /\ InitTables
AuthIdle == InitAuth /\ localStorage = clear /\ sessionStorage = clear /\ entryPoint = "App"
LocaleIdle == timezoneOffset = 0
SuggestionsIdle == InitSuggestions
RegisterIdle == InitRegister
ChunksIdle == InitChunks /\ wire = <<AtomN>>
ExtIdle == AuthIdle /\ LocaleIdle /\ SuggestionsIdle /\ RegisterIdle /\ ChunksIdle

\* the chat
Init == InitChat /\ MoodIdle /\ DBIdle /\ ExtIdle
Next == NextChat
Spec == Init /\ [][Next]_vars

\* the transport settles the fetch, delivers the next chunk, closes or breaks
Transport(r) ==
    \/ \E why \in FetchFailures : fetchFails(r, why)
    \/ fetchResponds(r)
    \/ \E ev \in GatewayEvents(r) : readChunk(r, ev)
    \/ readDone(r)
    \/ readFails(r)

\* the chat with a transport that does not stall
FairSpec == Init /\ [][Next]_vars /\ \A r \in Requests : WF_vars(Transport(r))

\* the mood service
InitMoodService == ChatIdle /\ InitMood /\ DBIdle /\ ExtIdle
SpecMood == InitMoodService /\ [][NextMood]_vars

\* the store and the router
InitStore == ChatIdle /\ MoodIdle /\ InitDB /\ InitTables /\ ExtIdle
SpecDB == InitStore /\ [][NextDB]_vars

\* the trend of the mood service, in the time zones of TzOffsets
InitTrendService == ChatIdle /\ InitTrend /\ DBIdle /\ AuthIdle /\ SuggestionsIdle /\ RegisterIdle /\ ChunksIdle
SpecTrend == InitTrendService /\ [][NextTrend]_vars

\* the pages, the router and the auth service
InitAuthService == ChatIdle /\ MoodIdle /\ DBIdle /\ InitAuth /\ LocaleIdle /\ SuggestionsIdle /\ RegisterIdle /\ ChunksIdle
SpecAuth == InitAuthService /\ [][NextAuth]_vars

\* the schema under plain INSERT and DELETE statements
InitSchema == ChatIdle /\ MoodIdle /\ InitDB /\ InitTables /\ ExtIdle
SpecSchema == InitSchema /\ [][NextSchema]_vars
InitIntensity == ChatIdle /\ MoodIdle /\ InitDB /\ InitTables /\ ExtIdle
SpecIntensity == InitIntensity /\ [][NextIntensity]_vars

\* the Suggestions tab, with calls that answer in any order
InitSuggestionsTab == ChatIdle /\ MoodIdle /\ DBIdle /\ AuthIdle /\ LocaleIdle /\ InitSuggestions /\ RegisterIdle /\ ChunksIdle
SpecSuggestions == InitSuggestionsTab /\ [][NextSuggestions]_vars

\* RegisterPage
InitRegisterPage == ChatIdle /\ MoodIdle /\ DBIdle /\ AuthIdle /\ LocaleIdle /\ SuggestionsIdle /\ InitRegister /\ ChunksIdle
SpecRegister == InitRegisterPage /\ [][NextRegister]_vars

\* the read loop under every way of cutting the body into chunks
InitChunkedBody == ChatIdle /\ MoodIdle /\ DBIdle /\ AuthIdle /\ LocaleIdle /\ SuggestionsIdle /\ RegisterIdle /\ InitChunks
SpecChunks == InitChunkedBody /\ [][NextChunks]_vars

(* ======================= the chat: claims ============================== *)
\* the bodies a message that is not a streaming placeholder can have
FixedBodies == Texts \cup {Greeting, ApologySend, ApologyJournal, AnalysisPrompt}

(* C1: every message sent with handleSendMessage whose text contains a       *)
(* crisis keyword has had onCrisisDetected invoked for it once its request   *)
(* is over.                                                                  *)
C1_KeywordTriggersCrisis ==
    \A r \in Requests :
        (req[r].origin = "send" /\ detectCrisis(req[r].text) /\ req[r].pc \in Terminal)
            => req[r].crisisCalls >= 1

(* C4: every request handleSendMessage starts ends in exactly one of          *)
(* Completed, Cancelled, Errored, and stays there; the step that ends it      *)
(* leaves isLoading false; under a fair transport no request stays pending.   *)
C4_RequestTerminates ==
    /\ \A r \in Requests :
          (req[r].origin = "send" /\ req[r].pc \in Pending) ~> (req[r].pc \in Terminal)
    /\ [][\A r \in Requests :
             /\ (req[r].pc \in Terminal => req'[r].pc = req[r].pc)
             /\ (req[r].origin = "send" /\ req[r].pc \in Pending /\ req'[r].pc \in Terminal
                    => ~isLoading')]_vars

\* a request of handleSendMessage that streamed content and completed
C4_Witness ==
    \E r \in Requests :
        /\ req[r].origin = "send"
        /\ req[r].pc = "completed"
        /\ req[r].processed # <<>>
        /\ ~isLoading

(* C5: once the read loop has handled an event of type error, the request of *)
(* handleSendMessage is Errored and the apology follows its placeholder.     *)
C5_ErrorEventEndsErrored ==
    \A r \in Requests :
        (req[r].origin = "send" /\ req[r].errorEvents > 0)
            => /\ req[r].pc = "errored"
               /\ \E i \in (req[r].idx + 1)..Len(messages) :
                     messages[i].content = ApologySend

(* C6: the step that cancels a pending request, started by Send or by         *)
(* journal analysis, leaves isLoading false and the messages as they were     *)
(* (no apology, no content), and a cancelled request changes nothing later.   *)
C6_CancelEndsQuietly ==
    [][\A r \in Requests :
          /\ (req[r].pc \in Pending /\ req'[r].pc = "cancelled")
                => (~isLoading' /\ messages' = messages)
          /\ (req[r].pc = "cancelled" => req'[r] = req[r])]_vars

(* C7: the content of each request's streaming message is the concatenation, *)
(* in arrival order, of the content events handled so far, and every other   *)
(* message keeps the body it was created with.                               *)
C7_ContentInOrder ==
    /\ \A r \in Requests :
          req[r].idx > 0 => messages[req[r].idx].content = req[r].processed
    /\ \A i \in 1..Len(messages) :
          \/ \E r \in Requests : req[r].idx = i
          \/ messages[i].content \in FixedBodies

(* C8: the gateway emits the metadata event at most once per request, and    *)
(* onCrisisDetected is invoked at most once per request, only for a          *)
(* metadata event the gateway sent.                                          *)
C8_MetadataAtMostOnce ==
    \A r \in Requests :
        /\ req[r].crisisCalls <= 1
        /\ req[r].crisisCalls = 1 => (stream[r].metaSent /\ showCrisisAlert)

\* a completed request that got content and crisis metadata
C8_Witness ==
    \E r \in Requests :
        /\ req[r].crisisCalls = 1
        /\ req[r].processed # <<>>
        /\ req[r].pc = "completed"

(* C20: a metadata event with next_action = crisis_flow does not cut the    *)
(* stream short.  The step that calls onCrisisDetected leaves the request     *)
(* reading an open stream and its message untouched; each content event       *)
(* handled after it is appended to the request's streaming message; the done  *)
(* event handled after it leaves that message with isStreaming false; and     *)
(* from there the request, unless the user cancels it, ends completed, with   *)
(* the message still not streaming.                                           *)
C20_CrisisDoesNotCutStream ==
    /\ [][\A r \in Requests :
             /\ (req'[r].crisisCalls > req[r].crisisCalls)
                   => /\ req'[r].pc = "reading"
                      /\ stream'[r].state = "open"
                      /\ messages'[req[r].idx] = messages[req[r].idx]
             /\ (req[r].crisisCalls > 0 /\ req'[r].processed # req[r].processed)
                   => /\ req'[r].pc = "reading"
                      /\ \E i \in 1..Len(Deltas) :
                            /\ req'[r].processed = Append(req[r].processed, Deltas[i])
                            /\ messages'[req[r].idx].content =
                                  messages[req[r].idx].content \o <<Deltas[i]>>
             /\ (req[r].crisisCalls > 0 /\ req'[r].doneEvents > req[r].doneEvents)
                   => ~messages'[req[r].idx].isStreaming]_vars
    /\ [](\A r \in Requests :
             (req[r].crisisCalls > 0 /\ req[r].doneEvents > 0 /\ req[r].pc \in Terminal)
                 => /\ req[r].pc \in {"completed", "cancelled"}
                    /\ ~messages[req[r].idx].isStreaming)
    /\ \A r \in Requests :
          (req[r].crisisCalls > 0 /\ req[r].doneEvents > 0 /\ req[r].pc = "reading")
              ~> (req[r].pc \in {"completed", "cancelled"})

\* a request that handled crisis metadata, then content, then done, and
\* completed with its message no longer streaming
C20_Witness ==
    \E r \in Requests :
        /\ req[r].crisisCalls = 1
        /\ req[r].afterCrisis > 0
        /\ req[r].doneEvents = 1
        /\ req[r].pc = "completed"
        /\ ~messages[req[r].idx].isStreaming
        /\ showCrisisAlert

(* C23: at most one request of callAIAPIStream is in flight (fetching or     *)
(* reading) at any time.                                                      *)
C23_AtMostOneInFlight ==
    Cardinality({r \in Requests : req[r].pc \in Pending}) <= 1

(* C24: while isLoading is false no message has isStreaming = true.          *)
C24_NoStreamingWhenIdle ==
    ~isLoading => \A i \in 1..Len(messages) : ~messages[i].isStreaming

(* ==================== the store and the router: claims ================== *)
(* C2: every decision the router returns or persists carries exactly one of  *)
(* the three actions: crisis_flow iff the label is a crisis label or the     *)
(* intensity reaches crisis_threshold; else support_suggestion iff the       *)
(* intensity reaches support_threshold; else normal_reply.                   *)
C2_RouterPriority ==
    LET crisis(l, i) == l \in CrisisLabels \/ i >= crisis_threshold
        support(l, i) == ~crisis(l, i) /\ i >= support_threshold
        agrees(l, i, a) ==
            /\ a \in Actions
            /\ a = "crisis_flow" <=> crisis(l, i)
            /\ a = "support_suggestion" <=> support(l, i)
            /\ a = "normal_reply" <=> (~crisis(l, i) /\ ~support(l, i))
    IN  /\ \A d \in AgentDecisions :
              agrees(d.emotion_label, d.emotion_intensity, d.next_action)
        /\ lastDecision.next_action # "none" =>
              agrees(lastDecision.label, lastDecision.intensity, lastDecision.next_action)

\* persisted decisions of the two lower priorities, and a crisis decided by
\* intensity alone
C2_Witness ==
    /\ \E d \in AgentDecisions :
          d.next_action = "support_suggestion" /\ d.emotion_intensity < crisis_threshold
    /\ \E d \in AgentDecisions :
          /\ d.next_action = "crisis_flow"
          /\ d.emotion_label \notin CrisisLabels
          /\ d.emotion_intensity >= crisis_threshold

(* C3: a CrisisEvent row always references an AgentDecision row that exists  *)
(* and has next_action = crisis_flow, and every persisted crisis_flow        *)
(* decision has its CrisisEvent, whatever writes failed on the way.          *)
C3_CrisisEventIffCrisisDecision ==
    /\ \A e \in CrisisEvents :
          \E d \in AgentDecisions :
              d.decision_id = e.decision_id /\ d.next_action = "crisis_flow"
    /\ \A d \in AgentDecisions :
          d.next_action = "crisis_flow" =>
              Cardinality({e \in CrisisEvents : e.decision_id = d.decision_id}) = 1

\* a write has failed, a session has gone with its decision, and a crisis
\* decision with its event is stored
C3_Witness ==
    /\ reportedFailures > 0
    /\ ConversationSessions = {}
    /\ lastDecision.next_action = "normal_reply"
    /\ \E e \in CrisisEvents : e.session_id = NULL
    /\ \E d \in AgentDecisions : d.next_action = "crisis_flow"

(* ========================= the mood service: claims ===================== *)
(* C9: getEntries returns to the logged-in user only entries of that user.   *)
C9_ReadsOnlyOwnEntries ==
    lastCall.op = "getEntries" =>
        \A i \in 1..Len(lastCall.returned) : lastCall.returned[i].owner = lastCall.by

(* C10: every stored entry has a mood score in 1..10: createEntry with a     *)
(* score outside the range adds nothing.                                     *)
C10_StoredScoresInRange ==
    \A i \in 1..Len(moodStorage) : validMoodScore(moodStorage[i].moodScore)

(* ---- C11: stored intensities lie in [0,1] ---- *)
\* C11: every emotion_intensity of AgentDecisions and CrisisEvents and every
\* non-NULL sentiment_intensity of MoodEntries that the store holds lies
\* in [0,1] (0..10 tenths), an intensity outside it being rejected
C11_StoredIntensitiesInRange ==
    /\ \A d \in AgentDecisions : validIntensity(d.emotion_intensity)
    /\ \A e \in CrisisEvents : validIntensity(e.emotion_intensity)
    /\ \A m \in MoodEntries :
          IF m.sentiment_intensity = <<>> THEN TRUE
          ELSE validIntensity(m.sentiment_intensity[1])

(* ---- C18: deleting a user leaves no reference to the user ---- *)
\* C18: generated keys are never issued twice, and every reference a row
\* holds is to a row that exists: a user_id to a row of Users, a non-NULL
\* session_id or decision_id to a row of its table. After DELETE FROM
\* Users no row therefore refers to the deleted user, to one of the user's
\* sessions or to one of the user's decisions.
C18_NoReferenceToDeletedUser ==
    /\ \A u \in Users : u < nextRowId
    /\ \A c \in EmergencyContacts : c.user_id \in Users
    /\ \A m \in MoodEntries : m.user_id \in Users
    /\ \A x \in ConversationSessions : x.user_id \in Users
    /\ \A d \in AgentDecisions :
          d.user_id \in Users /\ sessionRefAccepted(d.session_id)
    /\ \A m \in ConversationMessages :
          /\ \E x \in ConversationSessions :
                x.session_id = m.session_id /\ x.user_id \in Users
          /\ decisionRefAccepted(m.decision_id)
    /\ \A e \in CrisisEvents :
          /\ e.user_id \in Users /\ sessionRefAccepted(e.session_id)
          /\ \E d \in AgentDecisions : d.decision_id = e.decision_id
    /\ \A g \in TherapeuticGoals : g.user_id \in Users
    /\ \A l \in SuggestionLog :
          /\ l.user_id \in Users /\ sessionRefAccepted(l.session_id)
          /\ decisionRefAccepted(l.decision_id)

\* a user who had a row in every table was deleted, another user is left
C18_Witness ==
    /\ Cardinality(Users) = 1
    /\ nextRowId > MaxRows
    /\ \A t \in Tables : serial[t] >= 1
    /\ ConversationSessions = {} /\ AgentDecisions = {} /\ CrisisEvents = {}
    /\ EmergencyContacts = {} /\ MoodEntries = {} /\ ConversationMessages = {}
    /\ TherapeuticGoals = {} /\ SuggestionLog = {}

(* ---- C12: createEntry then read back ---- *)
\* C12: once createEntry(data) has resolved with an entry, getEntries()
\* returns an entry with the id of that entry and the moodScore and note
\* of data
C12_CreateThenReadBack ==
    (lastCall.op = "createEntry" /\ lastCall.ok) =>
        LET newEntry == lastCall.returned[1]
            read == entriesRead(0)
        IN  \E i \in 1..Len(read) :
                /\ read[i].id = newEntry.id
                /\ read[i].moodScore = newEntry.moodScore
                /\ read[i].note = newEntry.note

(* ---- C13: the trend is a contiguous series of days ending today ---- *)
\* C13: getTrendData(range) returns one bucket per calendar day of the
\* range, 7 for week and 30 for month, in chronological order, the last
\* one being today in the caller's local time; a day without entries is
\* there with value 0
C13_ContiguousSeries ==
    lastCall.op = "getTrendData" =>
        LET series == lastCall.returned
            days == rangeDays(lastCall.range)
            today == localDay(lastCall.at)
        IN  /\ Len(series) = days
            /\ \A k \in 1..Len(series) : series[k].date = today - days + k
            /\ \A k \in 1..Len(series) :
                  (\A i \in 1..Len(moodStorage) :
                      localDay(get[i].timestamp) # series[k].date)
                  => series[k].moodScore = 0

(* ---- C14: each bucket is the mean of its local day ---- *)
\* C14: the value of each bucket of the trend is the mean, rounded to one
\* decimal, of the scores of exactly the entries whose timestamp is on the
\* bucket's calendar day in local time, and every entry of the requested
\* range is on the day of exactly one bucket
C14_BucketIsMeanOfItsDay ==
    lastCall.op = "getTrendData" =>
        LET series == lastCall.returned
            days == rangeDays(lastCall.range)
            today == localDay(lastCall.at)
            entries == get
            onDay(day) == SelectSeq(entries, LAMBDA e : localDay(e.timestamp) = day)
            scoresOn(day) == [i \in 1..Len(onDay(day)) |-> onDay(day)[i].moodScore]
        IN  /\ \A k \in 1..Len(series) :
                  series[k].moodScore =
                     IF onDay(series[k].date) = <<>> THEN 0
                     ELSE roundedMean(scoresOn(series[k].date))
            /\ \A i \in 1..Len(entries) :
                  (/\ localDay(entries[i].timestamp) > today - days
                   /\ localDay(entries[i].timestamp) <= today)
                  => Cardinality({k \in 1..Len(series) :
                        series[k].date = localDay(entries[i].timestamp)}) = 1

(* ---- C15: protected pages need a token ---- *)
\* C15: while no token is stored in localStorage or sessionStorage, none of
\* the pages MoodJournalPage, ChatPage and ProfilePage is on the screen
C15_ProtectedPagesNeedToken ==
    rendered \in ProtectedPages => isAuthenticated

(* ---- C16: logout leaves no credentials ---- *)
\* C16: from logout() until the next successful login, whatever the two
\* storages held before, isAuthenticated() is false and getToken() and
\* getCurrentUser() return null
C16_LoggedOutMeansNoCredentials ==
    loggedOut => /\ ~isAuthenticated
                 /\ getToken = <<>>
                 /\ getCurrentUser = <<>>

\* handleLogout ran while a request of the profile page was in flight
C16_Witness ==
    /\ loggedOut
    /\ entryPoint = "App"
    /\ rendered = "LoginPage"
    /\ profileRequests > 0

(* ---- C17: a login with Remember Me survives a restart ---- *)
\* C17: from a successful login with Remember Me until logout or a 401
\* response, also across a new start of the application, getToken()
\* returns the stored token
C17_RememberMeSurvivesRestart ==
    remembered => getToken = <<AccessToken>>


UsernameOk(username) ==
    /\ Len(username) \in 3..30
    /\ \A i \in 1..Len(username) :
          isLetter(username[i]) \/ isDigit(username[i]) \/ username[i] = "_"
\* one "@", no white space, something before the "@", and after it a dot
\* with something on both sides
EmailOk(email) ==
    /\ Cardinality({i \in 1..Len(email) : email[i] = "@"}) = 1
    /\ \A i \in 1..Len(email) : email[i] \notin WhiteSpace
    /\ LET at == CHOOSE i \in 1..Len(email) : email[i] = "@"
       IN  /\ at > 1
           /\ \E j \in (at + 2)..(Len(email) - 1) : email[j] = "."
PasswordOk(password) ==
    /\ Len(password) \in 6..50
    /\ \E i \in 1..Len(password) : isLetter(password[i])
    /\ \E i \in 1..Len(password) : isDigit(password[i])
FormOk(data) ==
    /\ UsernameOk(data.username)
    /\ EmailOk(data.email)
    /\ PasswordOk(data.password)
    /\ data.confirmPassword = data.password

\* C22: a registration request is sent only with a form that meets the
\* conditions (username of 3 to 30 letters, digits or underscores; email of
\* the email format; password of 6 to 50 characters with a letter and a
\* digit; confirmPassword equal to password), and a submit of any other form
\* sends nothing and sets the error of every field that fails.
C22_RegisterOnlyValidForms ==
    [][/\ (registerSent' # registerSent)
             => (FormOk(formData) /\ registerSent' = Append(registerSent, formData))
       /\ (registerSubmit /\ ~FormOk(formData))
             => /\ registerSent' = registerSent
                /\ ~registerIsLoading'
                /\ errors' # NoErrors
                /\ (errors'.username = <<>>) <=> UsernameOk(formData.username)
                /\ (errors'.email = <<>>) <=> EmailOk(formData.email)
                /\ (errors'.password = <<>>) <=> PasswordOk(formData.password)
                /\ (errors'.confirmPassword = <<>>)
                      <=> (formData.confirmPassword # <<>>
                           /\ formData.confirmPassword = formData.password)]_vars

\* a request was sent with a valid form and failed, and a later submit of
\* a form with a bad username set that field's error
C22_Witness ==
    /\ Len(registerSent) = 1
    /\ FormOk(registerSent[1])
    /\ ~registerIsLoading
    /\ ~UsernameOk(formData.username)
    /\ errors.username # <<>>

(* ==================== the chunked body: claims ========================= *)
\* the events of the lines of a body, in the order they are sent
EventsOf(bytes) ==
    LET heads == SelectSeq(bytes, LAMBDA b : b.k = "J")
    IN  [i \in 1..Len(heads) |-> heads[i].ev]
ContentsOf(events) ==
    LET contents == SelectSeq(events, LAMBDA ev : ev.type = "content")
    IN  [i \in 1..Len(contents) |-> contents[i].content]
CountOf(events, type) == Len(SelectSeq(events, LAMBDA ev : ev.type = type))

\* C25: however the bytes read so far were cut into chunks, the read loop
\* is in the state it is in after reading them as one chunk; and when a
\* body of whole events and comment lines has been read, the events handled
\* are the events sent, each once and in order.
C25_ChunkingDoesNotMatter ==
    /\ offset > 0 => reader = loopBody(ReaderAtStart, SubSeq(wire, 1, offset))
    /\ (offset = Len(wire) /\ wire \in WiresOf(EventUnits, MaxWireUnits))
          => /\ reader.r.processed = ContentsOf(EventsOf(wire))
             /\ reader.msgs[1].content = ContentsOf(EventsOf(wire))
             /\ reader.r.crisisCalls = CountOf(EventsOf(wire), "metadata")
             /\ reader.r.doneEvents = CountOf(EventsOf(wire), "done")
             /\ reader.r.buffer = <<>>
             /\ reader.r.decoder = <<>>

\* a body with two content events has been read to its end in chunks that
\* ended inside a line or a character
C25_Witness ==
    /\ offset = Len(wire)
    /\ spanned
    /\ Len(reader.r.processed) = 2
====
